---- MODULE Spec2Model ----
(***************************************************************************)
(* Model of the chain-file parser (liftover/chainfile.Read), the in-memory *)
(* chain source (ChainFile.GetChain / GetAlignment) and the liftover query *)
(* (liftover.Lift) of zymatik-com/nucleo.                                  *)
(*                                                                         *)
(* Text is modelled as sequences of one-character strings, so that         *)
(* TrimSpace, Fields, HasPrefix, ParseInt and names.Chromosome are         *)
(* computed as the Go code computes them.                                  *)
(*                                                                         *)
(* int64 arithmetic is modelled on unbounded integers: the inputs are far  *)
(* from the 64-bit range, so neither ParseInt's range error nor wrap-around *)
(* of the running offsets is exercised.                                    *)
(***************************************************************************)
EXTENDS Integers, Sequences, FiniteSets, TLC

VARIABLES
    pc,                 \* position of Read: "scan", "returned", "panicked"; "src" for a foreign chain source
    upcoming,           \* what the scanner finds next in the stream
    nread,              \* number of lines the scanner has delivered
    sawHeader,          \* a line starting with "chain" has been delivered
    ChainsByChromosome, \* ChainFile.ChainsByChromosome: chromosome -> tree of chains
    ChainByID,          \* ChainFile.ChainByID: id -> chain
    currentChain,       \* Read's currentChain, << >> for nil
    refOffset,          \* Read's running reference offset
    queryOffset,        \* Read's running query offset
    blockLog,           \* the block lines of currentChain with the Alignment each produced
    ret,                \* what Read returned: [cf, err]
    lift,               \* the last Lift call and its outcome, << >> before the first
    headerLog,          \* the chains Read has closed, each with the block lines it got
    export,             \* position and locals of StoreChainFile
    calls,              \* the calls StoreChainFile has made on the store, in order
    skippedInChain,     \* a blank or comment line has been skipped while a chain was open
    strayBad,           \* a line of neither 1 nor 3 fields has been dropped before the first header
    lifts,              \* the Lift calls of concurrent callers on one index
    fasta,              \* fasta.Write followed by fasta.Read: the list, the text, Read's locals
    sniff               \* compress.Decompress: the stream, the buffer, the outcome

vars == <<pc, upcoming, nread, sawHeader, ChainsByChromosome, ChainByID, currentChain,
          refOffset, queryOffset, blockLog, ret, lift, headerLog, export, calls,
          skippedInChain, strayBad, lifts, fasta, sniff>>

----------------------------------------------------------------------------
(* Bounds of the model *)

\* Number of lines the scanner delivers before the stream ends.
MaxLines == 5
\* Lift is queried at positions 0..MaxPos.
MaxPos == 13

----------------------------------------------------------------------------
(* Strings: package strings and strconv *)

IsSpace(c) == c \in {" ", "\t"}

RECURSIVE TrimLeft(_)
TrimLeft(s) ==
    IF s # << >> /\ IsSpace(Head(s)) THEN TrimLeft(Tail(s)) ELSE s

RECURSIVE TrimRight(_)
TrimRight(s) ==
    IF s # << >> /\ IsSpace(s[Len(s)]) THEN TrimRight(SubSeq(s, 1, Len(s) - 1)) ELSE s

TrimSpace(s) == TrimRight(TrimLeft(s))

HasPrefix(s, prefix) ==
    /\ Len(s) >= Len(prefix)
    /\ SubSeq(s, 1, Len(prefix)) = prefix

TrimPrefix(s, prefix) ==
    IF HasPrefix(s, prefix) THEN SubSeq(s, Len(prefix) + 1, Len(s)) ELSE s

\* FieldsFrom(s, cur, acc): split s around runs of white space; cur is the
\* field being collected, acc the fields found so far.
RECURSIVE FieldsFrom(_, _, _)
FieldsFrom(s, cur, acc) ==
    IF s = << >>
    THEN IF cur = << >> THEN acc ELSE Append(acc, cur)
    ELSE IF IsSpace(Head(s))
         THEN FieldsFrom(Tail(s), << >>, IF cur = << >> THEN acc ELSE Append(acc, cur))
         ELSE FieldsFrom(Tail(s), Append(cur, Head(s)), acc)

Fields(s) == FieldsFrom(s, << >>, << >>)

Lower == <<"a","b","c","d","e","f","g","h","i","j","k","l","m",
           "n","o","p","q","r","s","t","u","v","w","x","y","z">>
Upper == <<"A","B","C","D","E","F","G","H","I","J","K","L","M",
           "N","O","P","Q","R","S","T","U","V","W","X","Y","Z">>

ToUpperChar(c) ==
    IF \E i \in 1..26 : Lower[i] = c
    THEN Upper[CHOOSE i \in 1..26 : Lower[i] = c]
    ELSE c

ToUpper(s) == [i \in 1..Len(s) |-> ToUpperChar(s[i])]

Digits == <<"0","1","2","3","4","5","6","7","8","9">>

IsDigit(c) == \E i \in 1..10 : Digits[i] = c

DigitVal(c) == (CHOOSE i \in 1..10 : Digits[i] = c) - 1

RECURSIVE DigitsVal(_, _)
DigitsVal(s, acc) ==
    IF s = << >> THEN acc ELSE DigitsVal(Tail(s), 10 * acc + DigitVal(Head(s)))

\* strconv.ParseInt(field, 10, 64): an optional sign and then decimal digits.
ParseInt(s) ==
    LET body == IF s # << >> /\ Head(s) \in {"+", "-"} THEN Tail(s) ELSE s
        neg  == s # << >> /\ Head(s) = "-"
    IN  IF body = << >> \/ \E i \in 1..Len(body) : ~IsDigit(body[i])
        THEN [ok |-> FALSE, value |-> 0]
        ELSE [ok |-> TRUE,
              value |-> IF neg THEN 0 - DigitsVal(body, 0) ELSE DigitsVal(body, 0)]

\* parseField with 0 for a field that does not parse.
parseField_zero(field) ==
    IF ParseInt(field).ok THEN ParseInt(field).value ELSE 0

parseField(field) ==
    IF ParseInt(field).ok THEN ParseInt(field).value ELSE -1

\* names.Chromosome
Chromosome(chromosome) ==
    LET c == ToUpper(TrimPrefix(chromosome, <<"c","h","r">>))
    IN  IF c = <<"M">> THEN <<"M","T">> ELSE c

----------------------------------------------------------------------------
(* The intervals and trees of github.com/Workiva/go-datastructures/augmentedtree,
   as chainfile.go uses them (one dimension).  A tree is kept in the order in
   which Query and Traverse yield its intervals: ascending low bound, then
   ascending ID().  Add leaves the tree unchanged when it meets a node with the
   ID() of the new interval on its way down, which it always does when the low
   bound is equal too. *)

\* The library's overlap test between a stored interval [low, high] and a
\* queried interval [qlow, qhigh]: both ends are compared inclusively.
Overlaps(low, high, qlow, qhigh) == high >= qlow /\ low <= qhigh

\* Chain.LowAtDimension / HighAtDimension / ID
ChainLow(c) == c.RefStart
ChainHigh(c) == c.RefEnd
ChainTreeID(c) == c.ID_

\* Alignment.LowAtDimension / HighAtDimension
AlignmentLow(a) == a.RefOffset
AlignmentHigh(a) == a.RefOffset + a.Size

\* x < y for int64 values converted to uint64 (Chain.ID returns uint64(c.ID_)).
Uint64Less(x, y) == IF (x < 0) = (y < 0) THEN x < y ELSE y < 0

ChainBefore(c, d) ==
    \/ ChainLow(c) < ChainLow(d)
    \/ ChainLow(c) = ChainLow(d) /\ Uint64Less(ChainTreeID(c), ChainTreeID(d))

\* tree.Add(currentChain) on a tree of chains
ChainTreeAdd(tree, c) ==
    IF \E i \in 1..Len(tree) :
          ChainLow(tree[i]) = ChainLow(c) /\ ChainTreeID(tree[i]) = ChainTreeID(c)
    THEN tree
    ELSE LET n == Cardinality({i \in 1..Len(tree) : ChainBefore(tree[i], c)})
         IN  SubSeq(tree, 1, n) \o <<c>> \o SubSeq(tree, n + 1, Len(tree))

\* tree.Query(&Interval{Start: position, End: position}) on a tree of chains
ChainTreeQuery(tree, position) ==
    SelectSeq(tree, LAMBDA c : Overlaps(ChainLow(c), ChainHigh(c), position, position))

\* A tree of alignments is the set of its alignments: Alignment.ID() hashes the
\* triple (RefOffset, QueryOffset, Size), so Add keeps one of each triple, and
\* the order of blocks with equal RefOffset follows the hash, which the model
\* leaves open.
AlignmentTreeAdd(tree, a) == tree \cup {a}

\* The alignments that chain.Alignments.Query(&Interval{offset, offset}) can
\* yield first: the overlapping ones with the least low bound.
AlignmentTreeQueryFirst(tree, offset) ==
    LET hits == {a \in tree : Overlaps(AlignmentLow(a), AlignmentHigh(a), offset, offset)}
    IN  {a \in hits : \A b \in hits : AlignmentLow(a) <= AlignmentLow(b)}

----------------------------------------------------------------------------
(* Maps *)

MapHas(m, k) == k \in DOMAIN m

MapPut(m, k, v) == [x \in (DOMAIN m) \cup {k} |-> IF x = k THEN v ELSE m[x]]

EmptyMap == [x \in {} |-> 0]

----------------------------------------------------------------------------
(* The lines the reader can deliver *)

RECURSIVE DecFrom(_, _)
DecFrom(n, acc) ==
    IF n < 10 THEN <<Digits[n + 1]>> \o acc
    ELSE DecFrom(n \div 10, <<Digits[(n % 10) + 1]>> \o acc)

\* The decimal numeral of a natural number.
Dec(n) == DecFrom(n, << >>)

RECURSIVE Join(_)
Join(tokens) ==
    IF tokens = << >> THEN << >>
    ELSE IF Len(tokens) = 1 THEN Head(tokens)
    ELSE Head(tokens) \o <<" ">> \o Join(Tail(tokens))

W_chain == <<"c","h","a","i","n">>
W_chr1 == <<"c","h","r","1">>
W_chrM == <<"c","h","r","M">>
W_Chr1 == <<"C","h","r","1">>
W_CHR1 == <<"C","H","R","1">>
W_9e2 == <<"9","e","2">>
W_1 == <<"1">>
W_plus == <<"+">>
W_minus == <<"-">>
W_odd == <<"?">>

\* chain 1000 chr1 100 + 0 8 chr1 100 + 10 17 5
HeaderA ==
    Join(<<W_chain, Dec(1000), W_chr1, Dec(100), W_plus, Dec(0), Dec(8),
           W_chr1, Dec(100), W_plus, Dec(10), Dec(17), Dec(5)>>)

\* chain 9e2 Chr1 100 + 9 12 chrM 60 - 20 23 6
\* (the score is no decimal integer, and the reference name is capitalised)
HeaderM ==
    Join(<<W_chain, W_9e2, W_Chr1, Dec(100), W_plus, Dec(9), Dec(12),
           W_chrM, Dec(60), W_minus, Dec(20), Dec(23), Dec(6)>>)

\* chain 2000 1 100 + 1 4 1 100 + 1 4 7
HeaderI ==
    Join(<<W_chain, Dec(2000), W_1, Dec(100), W_plus, Dec(1), Dec(4),
           W_1, Dec(100), W_plus, Dec(1), Dec(4), Dec(7)>>)

\* chain 1000 chr1 100 + 0 8 chr1 100 + 10 17     (the id is missing)
HeaderNoID ==
    Join(<<W_chain, Dec(1000), W_chr1, Dec(100), W_plus, Dec(0), Dec(8),
           W_chr1, Dec(100), W_plus, Dec(10), Dec(17)>>)

\* chain 10 1 100 + 0 3 1 100 ? 0 3 8     (the query strand is neither + nor -)
HeaderOddStrand ==
    Join(<<W_chain, Dec(10), W_1, Dec(100), W_plus, Dec(0), Dec(3),
           W_1, Dec(100), W_odd, Dec(0), Dec(3), Dec(8)>>)

\* chain 1000 1 + 0 100 1 + 0 100 5     (11 fields: the sizes are missing)
HeaderScenario ==
    Join(<<W_chain, Dec(1000), W_1, W_plus, Dec(0), Dec(100),
           W_1, W_plus, Dec(0), Dec(100), Dec(5)>>)

\* 3 2 1
BlockGap == Join(<<Dec(3), Dec(2), Dec(1)>>)

\* 3
BlockLast == Dec(3)

\* 3 2
BlockBad == Join(<<Dec(3), Dec(2)>>)

\* x
BlockNaN == <<"x">>

\* a comment behind leading white space
CommentLine == <<" ", "#", "c">>

\* a line of white space
BlankLine == <<" ", "\t">>

LineSet ==
    {HeaderA, HeaderM, HeaderI, HeaderNoID, HeaderScenario, HeaderOddStrand,
     BlockGap, BlockLast, BlockBad, BlockNaN, CommentLine, BlankLine}

\* The chromosomes Lift is asked about.
LiftChromosomes == {W_1, W_chr1, W_CHR1}

----------------------------------------------------------------------------
(* chainfile.Read *)

NotReturned == [cf |-> "none", err |-> "none", line |-> << >>]

\* What scanner.Scan() can find next in the stream: a line, the end of the
\* stream, or a failure (the reader fails, or the line is longer than the
\* scanner's buffer).
EOF == <<"<EOF>">>
ERR == <<"<ERR>">>

Upcoming(n) == IF n < MaxLines THEN LineSet \cup {EOF, ERR} ELSE {EOF, ERR}

\* IsSkipped without the comments.
IsSkipped_blankOnly(line) == line = << >>

\* line == "" || strings.HasPrefix(line, "#")
IsSkipped(line) == line = << >> \/ HasPrefix(line, <<"#">>)

\* strings.HasPrefix(line, "chain")
IsHeader(line) == HasPrefix(line, W_chain)

\* The least len(fields) that Read accepts for a header line.
MinHeaderFields == 12

\* NewChain with the names of the chromosomes stored as the line has them.
NewChain_rawNames(fields) ==
    [Score       |-> parseField(fields[2]),
     RefName     |-> fields[3],
     RefSize     |-> parseField(fields[4]),
     RefStrand   |-> fields[5],
     RefStart    |-> parseField(fields[6]),
     RefEnd      |-> parseField(fields[7]),
     QueryName   |-> fields[8],
     QuerySize   |-> parseField(fields[9]),
     QueryStrand |-> fields[10],
     QueryStart  |-> parseField(fields[11]),
     QueryEnd    |-> parseField(fields[12]),
     ID_         |-> parseField(fields[13]),
     Alignments  |-> {}]

\* The Chain that Read builds from the fields of a header line.
NewChain(fields) ==
    [Score       |-> parseField(fields[2]),
     RefName     |-> Chromosome(fields[3]),
     RefSize     |-> parseField(fields[4]),
     RefStrand   |-> fields[5],
     RefStart    |-> parseField(fields[6]),
     RefEnd      |-> parseField(fields[7]),
     QueryName   |-> Chromosome(fields[8]),
     QuerySize   |-> parseField(fields[9]),
     QueryStrand |-> fields[10],
     QueryStart  |-> parseField(fields[11]),
     QueryEnd    |-> parseField(fields[12]),
     ID_         |-> parseField(fields[13]),
     Alignments  |-> {}]

\* HeaderOutcome with a header of 11 fields let through.
HeaderOutcome_elevenFields(fields) ==
    IF Len(fields) < MinHeaderFields - 1 THEN "error"
    ELSE IF Len(fields) < 13 THEN "panic"
    ELSE "chain"

\* What Read does with a header line: "error" (return nil and an error),
\* "panic" (fields[12] is read and is out of range) or "chain".
HeaderOutcome(fields) ==
    IF Len(fields) < MinHeaderFields THEN "error"
    ELSE IF Len(fields) < 13 THEN "panic"
    ELSE "chain"

\* BlockStep with the query offset advanced by the reference gap.
BlockStep_oneGap(fields, ref, query) ==
    LET size == parseField(fields[1])
        refGap == IF Len(fields) = 3 THEN parseField(fields[2]) ELSE 0
    IN  [alignment   |-> [RefOffset |-> ref, QueryOffset |-> query, Size |-> size],
         refOffset   |-> ref + size + refGap,
         queryOffset |-> query + size + refGap]

\* What Read does with a block line of one or three fields, at the running
\* offsets ref and query: the Alignment it adds and the offsets it goes on with.
BlockStep(fields, ref, query) ==
    LET size == parseField(fields[1])
        refGap == IF Len(fields) = 3 THEN parseField(fields[2]) ELSE 0
        queryGap == IF Len(fields) = 3 THEN parseField(fields[3]) ELSE 0
    IN  [alignment   |-> [RefOffset |-> ref, QueryOffset |-> query, Size |-> size],
         refOffset   |-> ref + size + refGap,
         queryOffset |-> query + size + queryGap]

\* ChainsByChromosome after the chain is put into the tree of its chromosome.
InsertByChromosome(byChromosome, chain) ==
    LET tree == IF MapHas(byChromosome, chain.RefName)
                THEN byChromosome[chain.RefName] ELSE << >>
    IN  MapPut(byChromosome, chain.RefName, ChainTreeAdd(tree, chain))

\* ChainByID after the chain is stored under its id.
InsertByID(byID, chain) == MapPut(byID, chain.ID_, chain)

\* Both maps after Read closes currentChain (nothing to do when it is nil).
CloseCurrentChain ==
    IF currentChain = << >>
    THEN <<ChainsByChromosome, ChainByID>>
    ELSE <<InsertByChromosome(ChainsByChromosome, currentChain[1]),
           InsertByID(ChainByID, currentChain[1])>>

\* The record of the chain that Read is closing, added to the chains closed
\* so far: the chain as the header line opened it, and its block lines.
LogCurrentChain ==
    IF currentChain = << >>
    THEN headerLog
    ELSE headerLog \cup {[header |-> [currentChain[1] EXCEPT !.Alignments = {}],
                          blocks |-> blockLog]}

\* StoreChainFile has not been called.
ExportIdle ==
    [pc |-> "idle", from |-> "", todo |-> {}, chromosome |-> << >>, next |-> 0,
     storeErr |-> "nil", chainID |-> 0, err |-> "none"]

Init ==
    /\ pc \in {"scan", "src"}
    /\ upcoming \in (IF pc = "scan" THEN Upcoming(0) ELSE {EOF})
    /\ nread = 0
    /\ sawHeader = FALSE
    /\ ChainsByChromosome = EmptyMap
    /\ ChainByID = EmptyMap
    /\ currentChain = << >>
    /\ refOffset = 0
    /\ queryOffset = 0
    /\ blockLog = << >>
    /\ ret = NotReturned
    /\ lift = << >>
    /\ headerLog = {}
    /\ export = ExportIdle
    /\ calls = << >>
    /\ skippedInChain = FALSE
    /\ strayBad = FALSE
    /\ lifts = << >>
    /\ fasta = << >>
    /\ sniff = << >>

\* scanner.Scan() delivers the upcoming line; what follows it in the stream
\* becomes the upcoming item.
Deliver ==
    /\ pc = "scan"
    /\ upcoming \notin {EOF, ERR}
    /\ nread' = nread + 1
    /\ upcoming' \in Upcoming(nread + 1)

\* A blank line or a comment: continue.
SkipLine ==
    LET line == TrimSpace(upcoming) IN
    /\ Deliver
    /\ IsSkipped(line)
    /\ skippedInChain' = (skippedInChain \/ currentChain # << >>)
    /\ UNCHANGED <<pc, sawHeader, ChainsByChromosome, ChainByID, currentChain,
                   refOffset, queryOffset, blockLog, ret, lift, headerLog, export, calls,
                   strayBad, lifts, fasta, sniff>>

\* A line that starts with "chain": the open chain is closed, and a new one
\* is opened from the fields of the line.
HeaderLine ==
    LET line == TrimSpace(upcoming)
        fields == Fields(line)
        closed == CloseCurrentChain
        outcome == HeaderOutcome(fields)
    IN
    /\ Deliver
    /\ ~IsSkipped(line)
    /\ IsHeader(line)
    /\ sawHeader' = TRUE
    /\ ChainsByChromosome' = closed[1]
    /\ ChainByID' = closed[2]
    /\ headerLog' = LogCurrentChain
    /\ IF outcome = "error"
       THEN \* return nil, fmt.Errorf("invalid chain line: %s", line)
            /\ pc' = "returned"
            /\ ret' = [cf |-> "nil", err |-> "invalid chain line", line |-> line]
            /\ UNCHANGED <<currentChain, refOffset, queryOffset, blockLog>>
       ELSE IF outcome = "panic"
       THEN /\ pc' = "panicked"
            /\ UNCHANGED <<ret, currentChain, refOffset, queryOffset, blockLog>>
       ELSE /\ currentChain' = <<NewChain(fields)>>
            /\ refOffset' = 0
            /\ queryOffset' = 0
            /\ blockLog' = << >>
            /\ UNCHANGED <<pc, ret>>
    /\ UNCHANGED <<lift, export, calls,
                   skippedInChain,
                   strayBad, lifts, fasta, sniff>>

\* Any other line while a chain is open: a block of the chain.
BlockLine ==
    LET line == TrimSpace(upcoming)
        fields == Fields(line)
        step == BlockStep(fields, refOffset, queryOffset)
    IN
    /\ Deliver
    /\ ~IsSkipped(line)
    /\ ~IsHeader(line)
    /\ currentChain # << >>
    /\ IF Len(fields) = 1 \/ Len(fields) = 3
       THEN /\ currentChain' =
                 <<[currentChain[1] EXCEPT
                      !.Alignments = AlignmentTreeAdd(@, step.alignment)]>>
            /\ refOffset' = step.refOffset
            /\ queryOffset' = step.queryOffset
            /\ blockLog' = Append(blockLog, [fields |-> fields, alignment |-> step.alignment])
            /\ UNCHANGED <<pc, ret>>
       ELSE \* return nil, fmt.Errorf("invalid alignment line: %q", line)
            /\ pc' = "returned"
            /\ ret' = [cf |-> "nil", err |-> "invalid alignment line", line |-> line]
            /\ UNCHANGED <<currentChain, refOffset, queryOffset, blockLog>>
    /\ UNCHANGED <<sawHeader, ChainsByChromosome, ChainByID, lift, headerLog,
                   export, calls,
                   skippedInChain,
                   strayBad, lifts, fasta, sniff>>

\* StrayLine with the field count checked as it is for the lines of a chain.
StrayLine_rejectsBadCount ==
    LET line == TrimSpace(upcoming) IN
    /\ Deliver
    /\ ~IsSkipped(line)
    /\ ~IsHeader(line)
    /\ currentChain = << >>
    /\ strayBad' = (strayBad \/ Len(Fields(line)) \notin {1, 3})
    /\ IF Len(Fields(line)) \in {1, 3}
       THEN UNCHANGED <<pc, ret>>
       ELSE /\ pc' = "returned"
            /\ ret' = [cf |-> "nil", err |-> "invalid alignment line", line |-> line]
    /\ UNCHANGED <<sawHeader, ChainsByChromosome, ChainByID, currentChain,
                   refOffset, queryOffset, blockLog, lift, headerLog, export, calls,
                   skippedInChain, lifts, fasta, sniff>>

\* Any other line before the first header: neither branch of the loop body.
StrayLine ==
    LET line == TrimSpace(upcoming) IN
    /\ Deliver
    /\ ~IsSkipped(line)
    /\ ~IsHeader(line)
    /\ currentChain = << >>
    /\ strayBad' = (strayBad \/ Len(Fields(line)) \notin {1, 3})
    /\ UNCHANGED <<pc, sawHeader, ChainsByChromosome, ChainByID, currentChain,
                   refOffset, queryOffset, blockLog, ret, lift, headerLog, export, calls,
                   skippedInChain,
                   lifts, fasta, sniff>>

\* The stream ends: scanner.Scan() returns false, the open chain is closed and
\* Read returns chainFile with scanner.Err(), which is nil.
EndOfInput ==
    LET closed == CloseCurrentChain IN
    /\ pc = "scan"
    /\ upcoming = EOF
    /\ ChainsByChromosome' = closed[1]
    /\ ChainByID' = closed[2]
    /\ headerLog' = LogCurrentChain
    /\ pc' = "returned"
    /\ ret' = [cf |-> "chainFile", err |-> "nil", line |-> << >>]
    /\ UNCHANGED <<upcoming, nread, sawHeader, currentChain,
                   refOffset, queryOffset, blockLog, lift, export, calls,
                   skippedInChain,
                   strayBad, lifts, fasta, sniff>>

\* The scanner fails: scanner.Scan() returns false, the open chain is closed
\* and Read returns chainFile with scanner.Err(), which is the failure.
ScanError ==
    LET closed == CloseCurrentChain IN
    /\ pc = "scan"
    /\ upcoming = ERR
    /\ ChainsByChromosome' = closed[1]
    /\ ChainByID' = closed[2]
    /\ headerLog' = LogCurrentChain
    /\ pc' = "returned"
    /\ ret' = [cf |-> "chainFile", err |-> "scanner", line |-> << >>]
    /\ UNCHANGED <<upcoming, nread, sawHeader, currentChain,
                   refOffset, queryOffset, blockLog, lift, export, calls,
                   skippedInChain,
                   strayBad, lifts, fasta, sniff>>

----------------------------------------------------------------------------
(* ChainFile.GetChain, ChainFile.GetAlignment *)

\* TypesChain with the query start copied from the query end.
TypesChain_queryStartSlip(chain) ==
    [ID          |-> chain.ID_,
     Score       |-> chain.Score,
     RefName     |-> chain.RefName,
     RefSize     |-> chain.RefSize,
     RefStrand   |-> chain.RefStrand,
     RefStart    |-> chain.RefStart,
     RefEnd      |-> chain.RefEnd,
     QueryName   |-> chain.QueryName,
     QuerySize   |-> chain.QuerySize,
     QueryStrand |-> chain.QueryStrand,
     QueryStart  |-> chain.QueryEnd,
     QueryEnd    |-> chain.QueryEnd]

\* The types.Chain that GetChain copies out of a stored chain.
TypesChain(chain) ==
    [ID          |-> chain.ID_,
     Score       |-> chain.Score,
     RefName     |-> chain.RefName,
     RefSize     |-> chain.RefSize,
     RefStrand   |-> chain.RefStrand,
     RefStart    |-> chain.RefStart,
     RefEnd      |-> chain.RefEnd,
     QueryName   |-> chain.QueryName,
     QuerySize   |-> chain.QuerySize,
     QueryStrand |-> chain.QueryStrand,
     QueryStart  |-> chain.QueryStart,
     QueryEnd    |-> chain.QueryEnd]

\* GetChain returning the chain with the highest score of those the query
\* yields.
GetChain_highestScore(byChromosome, chromosome, position) ==
    IF ~MapHas(byChromosome, chromosome)
    THEN [err |-> "chromosome not found", chain |-> << >>]
    ELSE LET intervals == ChainTreeQuery(byChromosome[chromosome], position)
         IN  IF Len(intervals) = 0
             THEN [err |-> "position not found", chain |-> << >>]
             ELSE LET best == CHOOSE i \in 1..Len(intervals) :
                                 \A j \in 1..Len(intervals) :
                                     intervals[i].Score >= intervals[j].Score
                  IN  [err |-> "nil", chain |-> <<TypesChain(intervals[best])>>]

\* The result of cf.GetChain: err is "nil" and chain holds one types.Chain, or
\* err names the failure and chain is empty.
GetChain(byChromosome, chromosome, position) ==
    IF ~MapHas(byChromosome, chromosome)
    THEN [err |-> "chromosome not found", chain |-> << >>]
    ELSE LET intervals == ChainTreeQuery(byChromosome[chromosome], position)
         IN  IF Len(intervals) = 0
             THEN [err |-> "position not found", chain |-> << >>]
             ELSE [err |-> "nil", chain |-> <<TypesChain(intervals[1])>>]

\* The results cf.GetAlignment can have (one, unless blocks with the same
\* RefOffset overlap the offset).
GetAlignment(byID, chainID, offset) ==
    IF ~MapHas(byID, chainID)
    THEN {[err |-> "chain not found", alignment |-> << >>]}
    ELSE LET first == AlignmentTreeQueryFirst(byID[chainID].Alignments, offset)
         IN  IF first = {}
             THEN {[err |-> "offset not found", alignment |-> << >>]}
             ELSE {[err |-> "nil", alignment |-> <<a>>] : a \in first}

----------------------------------------------------------------------------
(* liftover.Lift *)

\* QueryPosition without the offset inside the block on the plus strand.
QueryPosition_blockStart(chain, alignment, position) ==
    IF chain.QueryStrand = W_plus
    THEN chain.QueryStart + alignment.QueryOffset
    ELSE chain.QueryEnd - (chain.RefStart + alignment.RefOffset)

\* QueryPosition with the offset inside the block taken off on the minus strand.
QueryPosition_mirrored(chain, alignment, position) ==
    IF chain.QueryStrand = W_plus
    THEN chain.QueryStart + alignment.QueryOffset
           + (position - (chain.RefStart + alignment.RefOffset))
    ELSE chain.QueryEnd - (chain.RefStart + alignment.RefOffset)
           - (position - (chain.RefStart + alignment.RefOffset))

\* QueryPosition with the minus-strand formula for the strand "-" alone.
QueryPosition_minusOnly(chain, alignment, position) ==
    IF chain.QueryStrand = W_minus
    THEN chain.QueryEnd - (chain.RefStart + alignment.RefOffset)
    ELSE chain.QueryStart + alignment.QueryOffset
           + (position - (chain.RefStart + alignment.RefOffset))

\* The query position Lift computes from the chain and the alignment.
QueryPosition(chain, alignment, position) ==
    IF chain.QueryStrand = W_plus
    THEN chain.QueryStart + alignment.QueryOffset
           + (position - (chain.RefStart + alignment.RefOffset))
    ELSE chain.QueryEnd - (chain.RefStart + alignment.RefOffset)

\* A store that holds what StoreChain and StoreAlignments were given and
\* answers point lookups over it.  The chains it holds, each under the id the
\* store gave it:
StoredChains ==
    {[ID          |-> calls[i].chainID,
      Score       |-> calls[i].chain[1].Score,
      Ref         |-> calls[i].chain[1].Ref,
      RefName     |-> calls[i].chain[1].RefName,
      RefSize     |-> calls[i].chain[1].RefSize,
      RefStrand   |-> calls[i].chain[1].RefStrand,
      RefStart    |-> calls[i].chain[1].RefStart,
      RefEnd      |-> calls[i].chain[1].RefEnd,
      QueryName   |-> calls[i].chain[1].QueryName,
      QuerySize   |-> calls[i].chain[1].QuerySize,
      QueryStrand |-> calls[i].chain[1].QueryStrand,
      QueryStart  |-> calls[i].chain[1].QueryStart,
      QueryEnd    |-> calls[i].chain[1].QueryEnd]
     : i \in {j \in 1..Len(calls) : calls[j].op = "StoreChain" /\ calls[j].err = "nil"}}

\* The alignments the store holds under a chain id.
StoredAlignments(chainID) ==
    UNION {{calls[i].alignments[k] : k \in 1..Len(calls[i].alignments)}
           : i \in {j \in 1..Len(calls) : /\ calls[j].op = "StoreAlignments"
                                          /\ calls[j].err = "nil"
                                          /\ calls[j].chainID = chainID}}

\* The store's GetChain: the chain of the reference and chromosome that
\* overlaps the position as the trees of the ChainFile do, the first in the
\* order of the tree (the store's ids rise along the traversal).
StoreGetChain(from, chromosome, position) ==
    LET held == {c \in StoredChains :
                    /\ c.Ref = from
                    /\ c.RefName = chromosome
                    /\ Overlaps(c.RefStart, c.RefEnd, position, position)}
    IN  IF held = {}
        THEN [err |-> "store: no chain", chain |-> << >>]
        ELSE LET first == CHOOSE c \in held : \A d \in held :
                              \/ c.RefStart < d.RefStart
                              \/ c.RefStart = d.RefStart /\ c.ID <= d.ID
             IN  [err |-> "nil",
                  chain |-> <<[ID          |-> first.ID,
                               Score       |-> first.Score,
                               RefName     |-> first.RefName,
                               RefSize     |-> first.RefSize,
                               RefStrand   |-> first.RefStrand,
                               RefStart    |-> first.RefStart,
                               RefEnd      |-> first.RefEnd,
                               QueryName   |-> first.QueryName,
                               QuerySize   |-> first.QuerySize,
                               QueryStrand |-> first.QueryStrand,
                               QueryStart  |-> first.QueryStart,
                               QueryEnd    |-> first.QueryEnd]>>]

\* The results the store's GetAlignment can have: an alignment held under the
\* chain id that overlaps the offset, with the least RefOffset.
StoreGetAlignment(chainID, offset) ==
    LET first == AlignmentTreeQueryFirst(StoredAlignments(chainID), offset)
    IN  IF first = {}
        THEN {[err |-> "store: no alignment", alignment |-> << >>]}
        ELSE {[err |-> "nil", alignment |-> <<a>>] : a \in first}

\* The store as a chain source for the reference it was filled for.
StoreSource(from) == [kind |-> "store", from |-> from]

\* What a chain source other than the ChainFile may answer.
SrcChains ==
    {[ID |-> id, Score |-> 1, RefName |-> <<"1">>, RefSize |-> 100, RefStrand |-> W_plus,
      RefStart |-> rs, RefEnd |-> rs + 9,
      QueryName |-> <<"1">>, QuerySize |-> 100, QueryStrand |-> strand,
      QueryStart |-> qs, QueryEnd |-> qs + 9]
     : id \in {1}, rs \in {0, 2}, qs \in {0, 5}, strand \in {W_plus, W_minus, << >>}}

SrcAlignments ==
    {[RefOffset |-> ro, QueryOffset |-> qo, Size |-> 3] : ro \in {0, 4}, qo \in {0, 4, 6}}

SrcGetChainResults ==
    {[err |-> "src", chain |-> << >>]} \cup {[err |-> "nil", chain |-> <<c>>] : c \in SrcChains}

SrcGetAlignmentResults ==
    {[err |-> "src", alignment |-> << >>]}
      \cup {[err |-> "nil", alignment |-> <<a>>] : a \in SrcAlignments}

\* The ChainSource values: the ChainFile that Read returned, or a source that
\* answers gc to GetChain and ga to GetAlignment.
ChainFileSource == [kind |-> "ChainFile"]
OtherSources ==
    {[kind |-> "other", gc |-> gc, ga |-> ga] :
        gc \in SrcGetChainResults, ga \in SrcGetAlignmentResults}

\* src.GetChain(ctx, from, chromosome, position)
SourceGetChain(src, chromosome, position) ==
    IF src.kind = "ChainFile"
    THEN GetChain(ChainsByChromosome, chromosome, position)
    ELSE IF src.kind = "store"
    THEN StoreGetChain(src.from, chromosome, position)
    ELSE src.gc

\* The results src.GetAlignment(ctx, chainID, offset) can have.
SourceGetAlignment(src, chainID, offset) ==
    IF src.kind = "ChainFile"
    THEN GetAlignment(ChainByID, chainID, offset)
    ELSE IF src.kind = "store"
    THEN StoreGetAlignment(chainID, offset)
    ELSE {src.ga}

\* The calls Lift makes on its source for the answer gc of GetChain: GetChain,
\* and GetAlignment when GetChain gave a chain.
SourceCalls(chromosome, position, gc) ==
    <<[op |-> "GetChain", chromosome |-> chromosome, position |-> position]>>
      \o (IF gc.err # "nil" THEN << >>
          ELSE <<[op |-> "GetAlignment", chainID |-> gc.chain[1].ID,
                  offset |-> position - gc.chain[1].RefStart]>>)

\* LiftOutcomes with the position itself handed to GetAlignment as the offset.
LiftOutcomes_absoluteOffset(src, chromosome, position) ==
    LET gc == SourceGetChain(src, chromosome, position) IN
    IF gc.err # "nil"
    THEN {[source |-> src.kind, chromosome |-> chromosome, position |-> position,
           srcCalls |-> SourceCalls(chromosome, position, gc),
           getChain |-> gc, getAlignment |-> << >>,
           result |-> -1, err |-> "could not get chain", wraps |-> gc.err]}
    ELSE {[source |-> src.kind, chromosome |-> chromosome, position |-> position,
           srcCalls |-> <<[op |-> "GetChain", chromosome |-> chromosome,
                           position |-> position],
                          [op |-> "GetAlignment", chainID |-> gc.chain[1].ID,
                           offset |-> position]>>,
           getChain |-> gc, getAlignment |-> <<ga>>,
           result |-> IF ga.err # "nil" THEN -1
                      ELSE QueryPosition(gc.chain[1], ga.alignment[1], position),
           err |-> IF ga.err # "nil" THEN "position not found in chromosome" ELSE "nil",
           wraps |-> ga.err]
          : ga \in SourceGetAlignment(src, gc.chain[1].ID, position)}

\* The outcomes of Lift(ctx, src, from, chromosome, position): the calls made
\* on the source and its answers, the position returned, the error and the
\* error it wraps.
LiftOutcomes(src, chromosome, position) ==
    LET gc == SourceGetChain(src, chromosome, position) IN
    IF gc.err # "nil"
    THEN {[source |-> src.kind, chromosome |-> chromosome, position |-> position,
           srcCalls |-> SourceCalls(chromosome, position, gc),
           getChain |-> gc, getAlignment |-> << >>,
           result |-> -1, err |-> "could not get chain", wraps |-> gc.err]}
    ELSE {[source |-> src.kind, chromosome |-> chromosome, position |-> position,
           srcCalls |-> SourceCalls(chromosome, position, gc),
           getChain |-> gc, getAlignment |-> <<ga>>,
           result |-> IF ga.err # "nil" THEN -1
                      ELSE QueryPosition(gc.chain[1], ga.alignment[1], position),
           err |-> IF ga.err # "nil" THEN "position not found in chromosome" ELSE "nil",
           wraps |-> ga.err]
          : ga \in SourceGetAlignment(src, gc.chain[1].ID, position - gc.chain[1].RefStart)}

\* Lift against the ChainFile that Read returned.  The model follows one call
\* per index: a call leaves the index as it is, so a later call has the
\* outcomes of a first one.
Lift ==
    /\ pc = "returned"
    /\ ret = [cf |-> "chainFile", err |-> "nil", line |-> << >>]
    /\ export.pc = "idle"
    /\ lift = << >>
    /\ \E chromosome \in LiftChromosomes, position \in 0..MaxPos :
         \E outcome \in LiftOutcomes(ChainFileSource, chromosome, position) :
            lift' = <<outcome>>
    /\ UNCHANGED <<pc, upcoming, nread, sawHeader, ChainsByChromosome, ChainByID,
                   currentChain, refOffset, queryOffset, blockLog, ret, headerLog,
                   export, calls,
                   skippedInChain,
                   strayBad, lifts, fasta, sniff>>

\* Lift against another chain source.
LiftSrc ==
    /\ pc = "src"
    /\ lift = << >>
    /\ \E src \in OtherSources, position \in 0..MaxPos :
         \E outcome \in LiftOutcomes(src, <<"1">>, position) :
            lift' = <<outcome>>
    /\ UNCHANGED <<pc, upcoming, nread, sawHeader, ChainsByChromosome, ChainByID,
                   currentChain, refOffset, queryOffset, blockLog, ret, headerLog,
                   export, calls,
                   skippedInChain,
                   strayBad, lifts, fasta, sniff>>

----------------------------------------------------------------------------
(* liftover.StoreChainFile.  The store (genobase.DB) is outside the
   repository: StoreChain either fails or returns the id the store assigns,
   which is modelled as the running count of the chains stored; StoreAlignments
   either fails or succeeds.  The progress bar is left out.  The model follows
   an index that is either queried with Lift or exported, not both. *)

\* The references the caller can name as from.
References == {"hg19"}

\* The types.Chain that StoreChainFile hands to StoreChain.
DbChain(chain, from) ==
    [Score       |-> chain.Score,
     Ref         |-> from,
     RefName     |-> chain.RefName,
     RefSize     |-> chain.RefSize,
     RefStrand   |-> chain.RefStrand,
     RefStart    |-> chain.RefStart,
     RefEnd      |-> chain.RefEnd,
     QueryName   |-> chain.QueryName,
     QuerySize   |-> chain.QuerySize,
     QueryStrand |-> chain.QueryStrand,
     QueryStart  |-> chain.QueryStart,
     QueryEnd    |-> chain.QueryEnd]

\* The orders in which Traverse can yield the alignments of a tree: ascending
\* RefOffset, blocks with equal RefOffset in either order.
RECURSIVE AlignmentTreeTraverse(_)
AlignmentTreeTraverse(tree) ==
    IF tree = {} THEN {<< >>}
    ELSE LET least == {a \in tree : \A b \in tree : AlignmentLow(a) <= AlignmentLow(b)}
         IN  UNION {{<<a>> \o rest : rest \in AlignmentTreeTraverse(tree \ {a})}
                    : a \in least}

\* make([]types.Alignment, n): n alignments of zero value.
MakeAlignments(n) == [i \in 1..n |-> [RefOffset |-> 0, QueryOffset |-> 0, Size |-> 0]]

\* The lists dbAlignments can be when StoreAlignments is called: the slice made
\* with the length of the tree, and every alignment of the tree appended to it.
DbAlignments(tree) ==
    {MakeAlignments(Cardinality(tree)) \o appended : appended \in AlignmentTreeTraverse(tree)}

\* The chain at which the traversal of the current chromosome stands.
ExportChain == ChainsByChromosome[export.chromosome][export.next]

\* The callback has a chain of the current tree to visit.
ExportVisiting ==
    /\ export.pc = "traverse"
    /\ export.next <= Len(ChainsByChromosome[export.chromosome])

\* StoreChainFile is called on the ChainFile that Read returned.
StartExport ==
    /\ pc = "returned"
    /\ ret = [cf |-> "chainFile", err |-> "nil", line |-> << >>]
    /\ lift = << >>
    /\ export.pc = "idle"
    /\ \E from \in References :
         export' = [export EXCEPT !.pc = "range", !.from = from,
                                  !.todo = DOMAIN ChainsByChromosome]
    /\ UNCHANGED <<pc, upcoming, nread, sawHeader, ChainsByChromosome, ChainByID,
                   currentChain, refOffset, queryOffset, blockLog, ret, lift,
                   headerLog, calls,
                   skippedInChain,
                   strayBad, lifts, fasta, sniff>>

\* The range over ChainsByChromosome yields a chromosome not yet visited (in
\* no particular order), and Traverse starts on its tree with storeErr nil.
ExportNextChromosome ==
    /\ export.pc = "range"
    /\ \E chromosome \in export.todo :
         export' = [export EXCEPT !.pc = "traverse", !.chromosome = chromosome,
                                  !.todo = @ \ {chromosome}, !.next = 1,
                                  !.storeErr = "nil"]
    /\ UNCHANGED <<pc, upcoming, nread, sawHeader, ChainsByChromosome, ChainByID,
                   currentChain, refOffset, queryOffset, blockLog, ret, lift,
                   headerLog, calls,
                   skippedInChain,
                   strayBad, lifts, fasta, sniff>>

\* The callback on a chain, storeErr nil: db.StoreChain is called; when it
\* fails, storeErr is set and the callback returns.
ExportStoreChain ==
    /\ ExportVisiting
    /\ export.storeErr = "nil"
    /\ \E ok \in BOOLEAN :
         LET id == Cardinality({i \in 1..Len(calls) :
                                  calls[i].op = "StoreChain" /\ calls[i].err = "nil"}) + 1
         IN  /\ calls' = Append(calls,
                    [op |-> "StoreChain", from |-> export.from,
                     chain |-> <<DbChain(ExportChain, export.from)>>,
                     chainID |-> IF ok THEN id ELSE 0,
                     alignments |-> << >>,
                     err |-> IF ok THEN "nil" ELSE "store",
                     of |-> <<export.chromosome, export.next>>])
             /\ export' = IF ok
                           THEN [export EXCEPT !.pc = "alignments", !.chainID = id]
                           ELSE [export EXCEPT !.storeErr = "could not store chain",
                                               !.next = @ + 1]
    /\ UNCHANGED <<pc, upcoming, nread, sawHeader, ChainsByChromosome, ChainByID,
                   currentChain, refOffset, queryOffset, blockLog, ret, lift,
                   headerLog,
                   skippedInChain,
                   strayBad, lifts, fasta, sniff>>

\* The callback goes on after StoreChain: dbAlignments is built and
\* db.StoreAlignments is called; when it fails, storeErr is set.
ExportStoreAlignments ==
    /\ export.pc = "alignments"
    /\ \E ok \in BOOLEAN, dbAlignments \in DbAlignments(ExportChain.Alignments) :
         /\ calls' = Append(calls,
                [op |-> "StoreAlignments", from |-> export.from,
                 chain |-> << >>,
                 chainID |-> export.chainID,
                 alignments |-> dbAlignments,
                 err |-> IF ok THEN "nil" ELSE "store",
                 of |-> <<export.chromosome, export.next>>])
         /\ export' = [export EXCEPT
                         !.pc = "traverse", !.next = @ + 1,
                         !.storeErr = IF ok THEN "nil" ELSE "could not store alignments"]
    /\ UNCHANGED <<pc, upcoming, nread, sawHeader, ChainsByChromosome, ChainByID,
                   currentChain, refOffset, queryOffset, blockLog, ret, lift,
                   headerLog,
                   skippedInChain,
                   strayBad, lifts, fasta, sniff>>

\* The callback on a chain when storeErr is set: it returns at once.
ExportSkipChain ==
    /\ ExportVisiting
    /\ export.storeErr # "nil"
    /\ export' = [export EXCEPT !.next = @ + 1]
    /\ UNCHANGED <<pc, upcoming, nread, sawHeader, ChainsByChromosome, ChainByID,
                   currentChain, refOffset, queryOffset, blockLog, ret, lift,
                   headerLog, calls,
                   skippedInChain,
                   strayBad, lifts, fasta, sniff>>

\* ExportEndTraverse without the return of storeErr: the range goes on.
ExportEndTraverse_goesOn ==
    /\ export.pc = "traverse"
    /\ export.next > Len(ChainsByChromosome[export.chromosome])
    /\ export' = [export EXCEPT !.pc = "range"]
    /\ UNCHANGED <<pc, upcoming, nread, sawHeader, ChainsByChromosome, ChainByID,
                   currentChain, refOffset, queryOffset, blockLog, ret, lift,
                   headerLog, calls, skippedInChain,
                   strayBad, lifts, fasta, sniff>>

\* Traverse has visited the tree: StoreChainFile returns storeErr when it is
\* set, and goes on with the range otherwise.
ExportEndTraverse ==
    /\ export.pc = "traverse"
    /\ export.next > Len(ChainsByChromosome[export.chromosome])
    /\ export' = IF export.storeErr # "nil"
                  THEN [export EXCEPT !.pc = "returned", !.err = export.storeErr]
                  ELSE [export EXCEPT !.pc = "range"]
    /\ UNCHANGED <<pc, upcoming, nread, sawHeader, ChainsByChromosome, ChainByID,
                   currentChain, refOffset, queryOffset, blockLog, ret, lift,
                   headerLog, calls,
                   skippedInChain,
                   strayBad, lifts, fasta, sniff>>

\* The range is over: StoreChainFile returns nil.
ExportReturn ==
    /\ export.pc = "range"
    /\ export.todo = {}
    /\ export' = [export EXCEPT !.pc = "returned", !.err = "nil"]
    /\ UNCHANGED <<pc, upcoming, nread, sawHeader, ChainsByChromosome, ChainByID,
                   currentChain, refOffset, queryOffset, blockLog, ret, lift,
                   headerLog, calls,
                   skippedInChain,
                   strayBad, lifts, fasta, sniff>>

\* Lift against the store, once StoreChainFile has returned nil.
LiftStore ==
    /\ pc = "returned"
    /\ export.pc = "returned"
    /\ export.err = "nil"
    /\ lift = << >>
    /\ \E chromosome \in LiftChromosomes, position \in 0..MaxPos :
         \E outcome \in LiftOutcomes(StoreSource(export.from), chromosome, position) :
            lift' = <<outcome>>
    /\ UNCHANGED <<pc, upcoming, nread, sawHeader, ChainsByChromosome, ChainByID,
                   currentChain, refOffset, queryOffset, blockLog, ret, headerLog,
                   export, calls, skippedInChain, strayBad, lifts, fasta, sniff>>

Next ==
    \/ SkipLine
    \/ HeaderLine
    \/ BlockLine
    \/ StrayLine
    \/ EndOfInput
    \/ ScanError
    \/ Lift
    \/ LiftSrc
    \/ StartExport
    \/ ExportNextChromosome
    \/ ExportStoreChain
    \/ ExportStoreAlignments
    \/ ExportSkipChain
    \/ ExportEndTraverse
    \/ ExportReturn
    \/ LiftStore

Spec == Init /\ [][Next]_vars

----------------------------------------------------------------------------
(* Properties of Lift *)

\* The last Lift call got a chain and an alignment from its source.
LiftGotBoth ==
    /\ lift # << >>
    /\ lift[1].getChain.err = "nil"
    /\ lift[1].getAlignment # << >>
    /\ lift[1].getAlignment[1].err = "nil"

LiftChain == lift[1].getChain.chain[1]
LiftAlignment == lift[1].getAlignment[1].alignment[1]

\* The last Lift call was answered by the ChainFile that Read returned.
LiftOnChainFile == pc = "returned" /\ lift # << >> /\ lift[1].source = "ChainFile"

\* C1: when the source returns a chain with QueryStrand "+" and an alignment,
\* Lift returns QueryStart + QueryOffset + (position - (RefStart + RefOffset))
\* and no error, whatever the source.
PlusStrandLift ==
    (LiftGotBoth /\ LiftChain.QueryStrand = W_plus) =>
        /\ lift[1].err = "nil"
        /\ lift[1].result =
             LiftChain.QueryStart + LiftAlignment.QueryOffset
               + (lift[1].position - (LiftChain.RefStart + LiftAlignment.RefOffset))

\* A plus-strand lift of a position behind the start of a later block.
PlusStrandLiftWitness ==
    /\ LiftGotBoth
    /\ LiftChain.QueryStrand = W_plus
    /\ LiftAlignment.RefOffset > 0
    /\ LiftAlignment.QueryOffset # LiftAlignment.RefOffset
    /\ lift[1].position > LiftChain.RefStart + LiftAlignment.RefOffset
    /\ lift[1].result # -1

\* C2: when the source returns a chain with QueryStrand "-" and an alignment,
\* Lift returns QueryEnd - (RefStart + RefOffset) and no error, wherever in the
\* block the position lies.
MinusStrandLift ==
    (LiftGotBoth /\ LiftChain.QueryStrand = W_minus) =>
        /\ lift[1].err = "nil"
        /\ lift[1].result =
             LiftChain.QueryEnd - (LiftChain.RefStart + LiftAlignment.RefOffset)

\* A minus-strand lift of a position behind the start of its block.
MinusStrandLiftWitness ==
    /\ LiftGotBoth
    /\ LiftChain.QueryStrand = W_minus
    /\ lift[1].position > LiftChain.RefStart + LiftAlignment.RefOffset
    /\ lift[1].result # -1

\* The offset lies in the half-open extent of a block of the chain stored
\* under the id.
InSomeBlock(id, offset) ==
    \E a \in ChainByID[id].Alignments :
        a.RefOffset <= offset /\ offset < a.RefOffset + a.Size

\* C3: a position inside the reference range of the chain that GetChain
\* returns, whose offset is in no block [RefOffset, RefOffset+Size) of that
\* chain, does not lift: Lift returns an error and no coordinate.
GapDoesNotLift ==
    (/\ LiftOnChainFile
     /\ lift[1].getChain.err = "nil"
     /\ LiftChain.RefStart <= lift[1].position
     /\ lift[1].position < LiftChain.RefEnd
     /\ ~InSomeBlock(LiftChain.ID, lift[1].position - LiftChain.RefStart)) =>
        /\ lift[1].err # "nil"
        /\ lift[1].result = -1

\* Some chain of the chromosome has the position in [RefStart, RefEnd).
InSomeChain(chromosome, position) ==
    \E i \in 1..Len(ChainsByChromosome[chromosome]) :
        LET c == ChainsByChromosome[chromosome][i]
        IN  c.RefStart <= position /\ position < c.RefEnd

\* C4: for a chromosome of the index, GetChain succeeds exactly if some chain
\* of the chromosome has RefStart <= position < RefEnd, and the chain it
\* returns has RefStart <= position < RefEnd.
ChainQueryHalfOpen ==
    (LiftOnChainFile /\ MapHas(ChainsByChromosome, lift[1].chromosome)) =>
        /\ lift[1].getChain.err = "nil"
             <=> InSomeChain(lift[1].chromosome, lift[1].position)
        /\ lift[1].getChain.err = "nil" =>
             /\ LiftChain.RefStart <= lift[1].position
             /\ lift[1].position < LiftChain.RefEnd

\* C5: Lift on the ChainFile fails with chromosome-not-found when the
\* chromosome has no tree, and with position-not-found when it has one but no
\* chain has the position in its reference interval [RefStart, RefEnd); no
\* coordinate is returned, and the two failures differ.
NotFoundOutcomes ==
    LiftOnChainFile =>
        /\ ~MapHas(ChainsByChromosome, lift[1].chromosome) =>
             /\ lift[1].getChain.err = "chromosome not found"
             /\ lift[1].err = "could not get chain"
             /\ lift[1].result = -1
        /\ (/\ MapHas(ChainsByChromosome, lift[1].chromosome)
            /\ ~InSomeChain(lift[1].chromosome, lift[1].position)) =>
             /\ lift[1].getChain.err = "position not found"
             /\ lift[1].err = "could not get chain"
             /\ lift[1].result = -1

\* The index holds one chain, on the plus strand of both genomes, with equal
\* reference and query start and one block that spans the chain.
OneIdentityChain ==
    /\ Cardinality(DOMAIN ChainsByChromosome) = 1
    /\ \A chromosome \in DOMAIN ChainsByChromosome :
         /\ Len(ChainsByChromosome[chromosome]) = 1
         /\ LET c == ChainsByChromosome[chromosome][1]
            IN  /\ c.RefName = chromosome
                /\ c.RefStrand = W_plus
                /\ c.QueryStrand = W_plus
                /\ c.RefStart = c.QueryStart
                /\ c.RefStart < c.RefEnd
                /\ c.Alignments = {[RefOffset |-> 0, QueryOffset |-> 0,
                                    Size |-> c.RefEnd - c.RefStart]}
                /\ DOMAIN ChainByID = {c.ID_}
                /\ ChainByID[c.ID_] = c

\* The last Lift asked the one chain of the index for a position strictly
\* inside it.
LiftInsideOneChain ==
    /\ LiftOnChainFile
    /\ OneIdentityChain
    /\ MapHas(ChainsByChromosome, lift[1].chromosome)
    /\ ChainsByChromosome[lift[1].chromosome][1].RefStart < lift[1].position
    /\ lift[1].position < ChainsByChromosome[lift[1].chromosome][1].RefEnd

\* C6: with one such chain in the index, Lift of a position strictly inside
\* the block returns the position itself.
IdentityLift ==
    LiftInsideOneChain => lift[1].err = "nil" /\ lift[1].result = lift[1].position

\* An identity lift has happened.
IdentityLiftWitness ==
    LiftInsideOneChain /\ lift[1].result = lift[1].position

----------------------------------------------------------------------------
(* Properties of Read *)

\* The upcoming line is about to be delivered to the loop body.
LineUpcoming == pc = "scan" /\ upcoming \notin {EOF, ERR}

\* The line begins with the token chain and fewer than 12 fields follow it.
IsShortHeader(raw) ==
    LET fields == Fields(TrimSpace(raw))
    IN  /\ fields # << >>
        /\ fields[1] = W_chain
        /\ Len(fields) - 1 < 12

\* C7: on a line that begins with the token chain and has fewer than 12 fields
\* after it, Read returns an error (and nil); it does not crash and builds no
\* chain from the line.
ShortHeaderIsParseError ==
    [][(LineUpcoming /\ IsShortHeader(upcoming)) =>
          /\ pc' = "returned"
          /\ ret'.cf = "nil"
          /\ ret'.err = "invalid chain line"
          /\ currentChain' = currentChain]_vars

\* The line is not blank, not a comment and not a header, and has a number of
\* fields other than 1 and 3.
IsBadBlock(raw) ==
    LET line == TrimSpace(raw)
    IN  /\ raw \notin {EOF, ERR}
        /\ ~IsSkipped(line)
        /\ ~IsHeader(line)
        /\ Len(Fields(line)) \notin {1, 3}

ReturnedError == pc = "returned" /\ ret.err # "nil" /\ ret.cf = "nil"

\* C8: when the input has a bad block line after a header, Read returns an
\* error and a nil index: both when Read gets to the line, and when Read has
\* ended with the line still unread.
BadBlockLineIsParseError ==
    /\ []((pc # "scan" /\ sawHeader /\ IsBadBlock(upcoming)) => ReturnedError)
    /\ [][(LineUpcoming /\ sawHeader /\ IsBadBlock(upcoming)) => ReturnedError']_vars

\* C9: whenever Read returns an error, the index it returns is nil.
NoPartialIndexOnFailure ==
    (pc = "returned" /\ ret.err # "nil") => ret.cf = "nil"

LineSize(fields) == parseField(fields[1])
LineRefGap(fields) == IF Len(fields) = 3 THEN parseField(fields[2]) ELSE 0
LineQueryGap(fields) == IF Len(fields) = 3 THEN parseField(fields[3]) ELSE 0

\* The sum of size + refGap over the first n block lines of the open chain.
RECURSIVE RefAdvance(_)
RefAdvance(n) ==
    IF n = 0 THEN 0
    ELSE RefAdvance(n - 1) + LineSize(blockLog[n].fields) + LineRefGap(blockLog[n].fields)

\* The sum of size + queryGap over the first n block lines of the open chain.
RECURSIVE QueryAdvance(_)
QueryAdvance(n) ==
    IF n = 0 THEN 0
    ELSE QueryAdvance(n - 1) + LineSize(blockLog[n].fields) + LineQueryGap(blockLog[n].fields)

\* C10: the k-th block line of a chain produces an Alignment with the size of
\* the line, RefOffset the sum of size + refGap and QueryOffset the sum of
\* size + queryGap over the block lines of the chain before it; the sums start
\* at 0 with every header line.  The blocks of the chain are these alignments.
RunningOffsets ==
    /\ \A k \in 1..Len(blockLog) :
         /\ blockLog[k].alignment.Size = LineSize(blockLog[k].fields)
         /\ blockLog[k].alignment.RefOffset = RefAdvance(k - 1)
         /\ blockLog[k].alignment.QueryOffset = QueryAdvance(k - 1)
    /\ currentChain # << >> =>
         currentChain[1].Alignments = {blockLog[k].alignment : k \in 1..Len(blockLog)}

\* The second chain of the input has got a block behind a block with
\* different gaps.
RunningOffsetsWitness ==
    /\ DOMAIN ChainByID # {}
    /\ Len(blockLog) >= 2
    /\ blockLog[2].alignment.RefOffset > blockLog[2].alignment.QueryOffset
    /\ blockLog[2].alignment.QueryOffset > 0

----------------------------------------------------------------------------
(* Properties of the index *)

\* Read has returned an index and no error.
ReadSucceeded == pc = "returned" /\ ret = [cf |-> "chainFile", err |-> "nil", line |-> << >>]

\* The chain of an entry of headerLog as the index should hold it: the chain
\* of the header line with the blocks of the block lines that followed it.
ClosedChain(e) ==
    [e.header EXCEPT !.Alignments = {e.blocks[k].alignment : k \in 1..Len(e.blocks)}]

\* The chain is in the tree of its reference chromosome.
InTree(chain) ==
    /\ MapHas(ChainsByChromosome, chain.RefName)
    /\ \E i \in 1..Len(ChainsByChromosome[chain.RefName]) :
         ChainsByChromosome[chain.RefName][i] = chain

\* C11: after a successful Read the chain of every header line of the input,
\* with exactly the blocks of its block lines, is in the tree of its
\* normalized reference chromosome and is the value of ChainByID at its id.
EveryChainInserted ==
    ReadSucceeded =>
        \A e \in headerLog :
            /\ InTree(ClosedChain(e))
            /\ MapHas(ChainByID, e.header.ID_)
            /\ ChainByID[e.header.ID_] = ClosedChain(e)

\* C12: in an index that Read returned no two chains have the same id: every
\* chain of a tree is the value of ChainByID at its id, so GetAlignment with
\* the id of a chain from GetChain searches the blocks of that chain.
ConsistentIndexes ==
    ReadSucceeded =>
        \A chromosome \in DOMAIN ChainsByChromosome :
            \A i \in 1..Len(ChainsByChromosome[chromosome]) :
                LET c == ChainsByChromosome[chromosome][i]
                IN  /\ MapHas(ChainByID, c.ID_)
                    /\ ChainByID[c.ID_] = c
                    /\ \A j \in 1..Len(ChainsByChromosome[chromosome]) :
                         ChainsByChromosome[chromosome][j].ID_ = c.ID_ => j = i

\* The key the chromosome token of a line should get: the chr prefix taken off
\* in whatever case it is written, upper case, and MT for M.
FoldedKey(token) ==
    LET c == TrimPrefix(ToUpper(token), <<"C","H","R">>)
    IN  IF c = <<"M">> THEN <<"M","T">> ELSE c

\* The upcoming line is a header line from which Read builds a chain.
HeaderUpcoming ==
    /\ LineUpcoming
    /\ IsHeader(TrimSpace(upcoming))
    /\ HeaderOutcome(Fields(TrimSpace(upcoming))) = "chain"

\* C13: the chain of a header line gets as RefName (the key of its tree) and
\* as QueryName the token of the line without its chr prefix, whatever the
\* case of either, with MT for M; normalizing the name again changes nothing.
\* Headers naming chr1, Chr1 and 1 all get the key "1".
ChromosomeNormalization ==
    [][HeaderUpcoming =>
          LET fields == Fields(TrimSpace(upcoming))
              chain == currentChain'[1]
          IN  /\ chain.RefName = FoldedKey(fields[3])
              /\ chain.QueryName = FoldedKey(fields[8])
              /\ Chromosome(chain.RefName) = chain.RefName
              /\ Chromosome(chain.QueryName) = chain.QueryName]_vars

\* The chromosome the last Lift asked for is written as names.Chromosome
\* writes it.
LiftNormalized == Chromosome(lift[1].chromosome) = lift[1].chromosome

\* The index has a tree for the normalized name of the chromosome the last
\* Lift asked for.
LiftHasTree ==
    /\ LiftOnChainFile
    /\ MapHas(ChainsByChromosome, Chromosome(lift[1].chromosome))

\* C14 as stated: Lift on the ChainFile normalizes its chromosome argument, so
\* it finds the tree stored under the normalized name.
LookupNormalizes ==
    LiftHasTree => lift[1].getChain.err # "chromosome not found"

\* C14: Lift on the ChainFile looks the chromosome up as it is given.  Given
\* in normalized form it finds the tree Read stored; given in another form
\* (chr1 for the chains stored under 1) it fails with chromosome-not-found
\* and returns no coordinate.
LookupAsGiven ==
    LiftHasTree =>
        IF LiftNormalized
        THEN lift[1].getChain.err # "chromosome not found"
        ELSE /\ lift[1].getChain.err = "chromosome not found"
             /\ lift[1].err = "could not get chain"
             /\ lift[1].result = -1

\* Lift was asked for chr1 on an index with chains under 1, and did not find
\* the chromosome.
LookupAsGivenWitness ==
    /\ LiftHasTree
    /\ lift[1].chromosome = W_chr1
    /\ Len(ChainsByChromosome[W_1]) >= 1
    /\ lift[1].getChain.err = "chromosome not found"

\* The token is a decimal integer: digits, at least one, behind at most one sign.
IsDecimalInteger(token) ==
    LET digits == IF token # << >> /\ Head(token) \in {"+", "-"} THEN Tail(token) ELSE token
    IN  /\ digits # << >>
        /\ \A i \in 1..Len(digits) : IsDigit(digits[i])

\* The numeric fields of a header line: the field of the Chain and the place
\* of its token in the line.
NumericHeaderFields ==
    {<<"Score", 2>>, <<"RefSize", 4>>, <<"RefStart", 6>>, <<"RefEnd", 7>>,
     <<"QuerySize", 9>>, <<"QueryStart", 11>>, <<"QueryEnd", 12>>, <<"ID_", 13>>}

\* The upcoming line is a block line of one or three fields for the open chain.
BlockUpcoming ==
    /\ LineUpcoming
    /\ ~IsSkipped(TrimSpace(upcoming))
    /\ ~IsHeader(TrimSpace(upcoming))
    /\ currentChain # << >>
    /\ Len(Fields(TrimSpace(upcoming))) \in {1, 3}

\* C15: a numeric field that is no decimal integer makes Read return no error:
\* the header line still opens its chain and the block line still adds its
\* block, with -1 for the field, and Read goes on scanning.
LenientNumericFields ==
    [][LET fields == Fields(TrimSpace(upcoming)) IN
       /\ HeaderUpcoming =>
            /\ pc' = "scan"
            /\ ret' = NotReturned
            /\ currentChain' # << >>
            /\ \A f \in NumericHeaderFields :
                 ~IsDecimalInteger(fields[f[2]]) => currentChain'[1][f[1]] = -1
       /\ BlockUpcoming =>
            /\ pc' = "scan"
            /\ ret' = NotReturned
            /\ Len(blockLog') = Len(blockLog) + 1
            /\ blockLog'[Len(blockLog')].alignment \in currentChain'[1].Alignments
            /\ ~IsDecimalInteger(fields[1]) =>
                 blockLog'[Len(blockLog')].alignment.Size = -1]_vars

\* Read has returned an index with a chain whose score did not parse, with a
\* block whose size did not parse and a block behind it.
LenientNumericFieldsWitness ==
    /\ ReadSucceeded
    /\ \E e \in headerLog :
         /\ e.header.Score = -1
         /\ InTree(ClosedChain(e))
         /\ Len(e.blocks) >= 2
         /\ ~IsDecimalInteger(e.blocks[1].fields[1])
         /\ e.blocks[1].alignment.Size = -1

\* The sum of size + refGap over block lines.
RECURSIVE RefExtent(_)
RefExtent(blocks) ==
    IF blocks = << >> THEN 0
    ELSE LineSize(Head(blocks).fields) + LineRefGap(Head(blocks).fields)
           + RefExtent(Tail(blocks))

\* The sum of size + queryGap over block lines.
RECURSIVE QueryExtent(_)
QueryExtent(blocks) ==
    IF blocks = << >> THEN 0
    ELSE LineSize(Head(blocks).fields) + LineQueryGap(Head(blocks).fields)
           + QueryExtent(Tail(blocks))

\* C16: for every chain in an index that Read returned, the sizes of its
\* blocks and the reference gaps between them add up to RefEnd - RefStart, and
\* the sizes and the query gaps add up to QueryEnd - QueryStart.
ChainExtentIsBlockSum ==
    ReadSucceeded =>
        \A e \in headerLog :
            InTree(ClosedChain(e)) =>
                /\ RefExtent(e.blocks) = e.header.RefEnd - e.header.RefStart
                /\ QueryExtent(e.blocks) = e.header.QueryEnd - e.header.QueryStart

\* C17: along the blocks of a chain, in the order of its block lines, neither
\* RefOffset nor QueryOffset ever decreases, whatever the fields of the lines.
MonotoneOffsets ==
    \A k \in 2..Len(blockLog) :
        /\ blockLog[k - 1].alignment.RefOffset <= blockLog[k].alignment.RefOffset
        /\ blockLog[k - 1].alignment.QueryOffset <= blockLog[k].alignment.QueryOffset

\* The line is empty, or white space only, or its first character that is not
\* white space is #.
IsBlankOrComment(raw) ==
    \/ \A i \in 1..Len(raw) : IsSpace(raw[i])
    \/ \E j \in 1..Len(raw) :
          /\ raw[j] = "#"
          /\ \A i \in 1..(j - 1) : IsSpace(raw[i])

\* C18: a blank line or a comment line changes nothing of what Read has built
\* and nothing of what it goes on with: the index, the open chain, the running
\* offsets and the return value are as they would be without the line.
SkippedLinesIgnored ==
    [][(LineUpcoming /\ IsBlankOrComment(upcoming)) =>
          UNCHANGED <<pc, sawHeader, ChainsByChromosome, ChainByID, currentChain,
                      refOffset, queryOffset, blockLog, ret, headerLog>>]_vars

\* Read has returned an index after it skipped a blank or comment line inside
\* a chain that has blocks.
SkippedLinesIgnoredWitness ==
    /\ ReadSucceeded
    /\ skippedInChain
    /\ \E e \in headerLog : InTree(ClosedChain(e)) /\ Len(e.blocks) >= 1

----------------------------------------------------------------------------
(* Properties of StoreChainFile *)

\* The chain of the index that a store call was made for.
CallChain(call) == ChainsByChromosome[call.of[1]][call.of[2]]

\* The places of the chains in the trees of the index.
ChainPlaces ==
    UNION {{<<chromosome, i>> : i \in 1..Len(ChainsByChromosome[chromosome])}
           : chromosome \in DOMAIN ChainsByChromosome}

\* C19: StoreChainFile calls StoreChain once for each chain, tagged with from,
\* and then StoreAlignments once with the id StoreChain returned and a list
\* that holds exactly the blocks of that chain: as many entries as the chain
\* has blocks, and no entry that is not a block of it.
ExportWritesExactlyBlocks ==
    /\ \A i \in 1..Len(calls) :
         /\ calls[i].op = "StoreChain" =>
              /\ calls[i].from = export.from
              /\ calls[i].chain = <<DbChain(CallChain(calls[i]), export.from)>>
              /\ \A j \in 1..Len(calls) :
                   (calls[j].op = "StoreChain" /\ calls[j].of = calls[i].of) => j = i
         /\ calls[i].op = "StoreAlignments" =>
              /\ i > 1
              /\ calls[i - 1].op = "StoreChain"
              /\ calls[i - 1].err = "nil"
              /\ calls[i - 1].of = calls[i].of
              /\ calls[i].chainID = calls[i - 1].chainID
              /\ Len(calls[i].alignments) = Cardinality(CallChain(calls[i]).Alignments)
              /\ {calls[i].alignments[k] : k \in 1..Len(calls[i].alignments)}
                   = CallChain(calls[i]).Alignments
    /\ (export.pc = "returned" /\ export.err = "nil") =>
         \A place \in ChainPlaces :
            \E i \in 1..(Len(calls) - 1) :
                /\ calls[i].op = "StoreChain" /\ calls[i].of = place
                /\ calls[i + 1].op = "StoreAlignments"

\* A store call has failed.
SomeCallFailed == \E i \in 1..Len(calls) : calls[i].err # "nil"

\* C20: once StoreChain or StoreAlignments has failed, StoreChainFile makes no
\* further call on the store, for no chain of any chromosome: it only passes
\* over the chains left in the tree, and returns the failure wrapped as
\* could-not-store-chain or could-not-store-alignments.  It returns nil only
\* when no call failed.  Every call is a StoreChain or a StoreAlignments:
\* nothing written before the failure is taken back.
ExportAbortsOnFirstFailure ==
    /\ \A i \in 1..(Len(calls) - 1) : calls[i].err = "nil"
    /\ \A i \in 1..Len(calls) : calls[i].op \in {"StoreChain", "StoreAlignments"}
    /\ SomeCallFailed =>
         /\ export.pc \in {"traverse", "returned"}
         /\ export.storeErr =
              (IF calls[Len(calls)].op = "StoreChain"
               THEN "could not store chain" ELSE "could not store alignments")
         /\ export.pc = "returned" => export.err = export.storeErr
    /\ (export.pc = "returned" /\ ~SomeCallFailed) => export.err = "nil"

\* StoreChainFile has returned the failure of a StoreAlignments call that
\* came after successful calls, with a chain of the same tree passed over and
\* another chromosome never visited.
ExportAbortsOnFirstFailureWitness ==
    /\ export.pc = "returned"
    /\ export.err = "could not store alignments"
    /\ export.todo # {}
    /\ Len(calls) >= 2
    /\ calls[Len(calls)].of[2] < Len(ChainsByChromosome[export.chromosome])

----------------------------------------------------------------------------
(* Properties of the calls of Lift *)

\* C21: a Lift call calls GetChain once, with its chromosome and position.
\* When that fails it returns -1 and an error wrapping the failure, and does
\* not call GetAlignment.  Otherwise it calls GetAlignment once, with the id
\* of the chain and position - RefStart, and when that fails returns -1 and an
\* error wrapping the failure.  No call is made a second time.
LiftCallProtocol ==
    lift # << >> =>
        LET l == lift[1] IN
        /\ l.srcCalls[1] = [op |-> "GetChain", chromosome |-> l.chromosome,
                            position |-> l.position]
        /\ l.getChain.err # "nil" =>
             /\ Len(l.srcCalls) = 1
             /\ l.result = -1
             /\ l.err = "could not get chain"
             /\ l.wraps = l.getChain.err
        /\ l.getChain.err = "nil" =>
             /\ Len(l.srcCalls) = 2
             /\ l.srcCalls[2] = [op |-> "GetAlignment", chainID |-> LiftChain.ID,
                                 offset |-> l.position - LiftChain.RefStart]
             /\ l.getAlignment[1].err # "nil" =>
                  /\ l.result = -1
                  /\ l.err = "position not found in chromosome"
                  /\ l.wraps = l.getAlignment[1].err

\* A Lift call got a chain that starts behind 0 and then no alignment.
LiftCallProtocolWitness ==
    /\ lift # << >>
    /\ lift[1].getChain.err = "nil"
    /\ LiftChain.RefStart > 0
    /\ lift[1].getAlignment[1].err # "nil"
    /\ lift[1].result = -1

----------------------------------------------------------------------------
(* Concurrent Lift calls on one ChainFile.  A call is followed through its two
   calls on the ChainFile, and the calls of the callers interleave. *)

\* The callers.
Callers == {1, 2}

\* The chain Read builds from a header line and the block lines behind it.
RECURSIVE ChainWithBlocks(_, _, _, _)
ChainWithBlocks(chain, lines, ref, query) ==
    IF lines = << >> THEN chain
    ELSE LET step == BlockStep(Fields(TrimSpace(Head(lines))), ref, query)
         IN  ChainWithBlocks(
                 [chain EXCEPT !.Alignments = AlignmentTreeAdd(@, step.alignment)],
                 Tail(lines), step.refOffset, step.queryOffset)

\* The index Read returns for chains with different ids, as
\* <<ChainsByChromosome, ChainByID>>.
RECURSIVE IndexOf(_)
IndexOf(chains) ==
    IF chains = << >> THEN <<EmptyMap, EmptyMap>>
    ELSE LET rest == IndexOf(SubSeq(chains, 1, Len(chains) - 1))
             chain == chains[Len(chains)]
         IN  <<InsertByChromosome(rest[1], chain), InsertByID(rest[2], chain)>>

\* The indexes the callers share: Read's index for the lines
\* HeaderA, 3 2 1, 3, HeaderI, 3 and for the lines HeaderA, 3, HeaderM, 3.
SharedIndexes ==
    {IndexOf(<<ChainWithBlocks(NewChain(Fields(HeaderA)), <<BlockGap, BlockLast>>, 0, 0),
               ChainWithBlocks(NewChain(Fields(HeaderI)), <<BlockLast>>, 0, 0)>>),
     IndexOf(<<ChainWithBlocks(NewChain(Fields(HeaderA)), <<BlockLast>>, 0, 0),
               ChainWithBlocks(NewChain(Fields(HeaderM)), <<BlockLast>>, 0, 0)>>)}

\* A caller that is not in a call.
LiftIdle ==
    [pc |-> "idle", chromosome |-> << >>, position |-> 0, chain |-> << >>,
     result |-> 0, err |-> "none", overlapped |-> FALSE]

\* Another caller is inside a call.
OtherInCall(p) ==
    \E q \in Callers \ {p} : lifts[q].pc \in {"GetChain", "GetAlignment"}

\* Read has returned one of the shared indexes; no caller has called yet.
InitLifts ==
    /\ pc = "returned"
    /\ upcoming = EOF
    /\ nread = 0
    /\ sawHeader = TRUE
    /\ \E index \in SharedIndexes :
         /\ ChainsByChromosome = index[1]
         /\ ChainByID = index[2]
    /\ currentChain = << >>
    /\ refOffset = 0
    /\ queryOffset = 0
    /\ blockLog = << >>
    /\ ret = [cf |-> "chainFile", err |-> "nil", line |-> << >>]
    /\ lift = << >>
    /\ headerLog = {}
    /\ export = ExportIdle
    /\ calls = << >>
    /\ skippedInChain = FALSE
    /\ strayBad = FALSE
    /\ lifts = [p \in Callers |-> LiftIdle]
    /\ fasta = << >>
    /\ sniff = << >>

\* Caller p calls Lift.
CallLift(p) ==
    /\ lifts[p].pc = "idle"
    /\ \E chromosome \in LiftChromosomes, position \in 0..MaxPos :
         lifts' = [lifts EXCEPT ![p] = [LiftIdle EXCEPT !.pc = "GetChain",
                                                        !.chromosome = chromosome,
                                                        !.position = position,
                                                        !.overlapped = OtherInCall(p)]]
    /\ UNCHANGED <<pc, upcoming, nread, sawHeader, ChainsByChromosome, ChainByID,
                   currentChain, refOffset, queryOffset, blockLog, ret, lift,
                   headerLog, export, calls, skippedInChain, strayBad, fasta, sniff>>

\* The call of p runs cf.GetChain, and returns when that fails.
LiftGetChain(p) ==
    /\ lifts[p].pc = "GetChain"
    /\ LET gc == GetChain(ChainsByChromosome, lifts[p].chromosome, lifts[p].position)
       IN  lifts' = [lifts EXCEPT ![p] =
              IF gc.err # "nil"
              THEN [@ EXCEPT !.pc = "done", !.result = -1, !.err = "could not get chain",
                             !.overlapped = @ \/ OtherInCall(p)]
              ELSE [@ EXCEPT !.pc = "GetAlignment", !.chain = gc.chain,
                             !.overlapped = @ \/ OtherInCall(p)]]
    /\ UNCHANGED <<pc, upcoming, nread, sawHeader, ChainsByChromosome, ChainByID,
                   currentChain, refOffset, queryOffset, blockLog, ret, lift,
                   headerLog, export, calls, skippedInChain, strayBad, fasta, sniff>>

\* LiftGetAlignment on a ChainFile that keeps the chain of the last GetChain
\* in one place for all callers.
LiftGetAlignment_sharedChain(p) ==
    /\ lifts[p].pc = "GetAlignment"
    /\ LET others == {q \in Callers \ {p} : lifts[q].chain # << >>}
           chain == IF others = {} THEN lifts[p].chain[1]
                    ELSE lifts[CHOOSE q \in others : TRUE].chain[1]
       IN  \E ga \in GetAlignment(ChainByID, chain.ID, lifts[p].position - chain.RefStart) :
              lifts' = [lifts EXCEPT ![p] =
                 [@ EXCEPT !.pc = "done",
                           !.result = IF ga.err # "nil" THEN -1
                                      ELSE QueryPosition(chain, ga.alignment[1],
                                                         lifts[p].position),
                           !.err = IF ga.err # "nil"
                                   THEN "position not found in chromosome" ELSE "nil",
                           !.overlapped = @ \/ OtherInCall(p)]]
    /\ UNCHANGED <<pc, upcoming, nread, sawHeader, ChainsByChromosome, ChainByID,
                   currentChain, refOffset, queryOffset, blockLog, ret, lift,
                   headerLog, export, calls, skippedInChain, strayBad, fasta, sniff>>

\* The call of p runs cf.GetAlignment with the copy of the chain it got, and
\* returns.
LiftGetAlignment(p) ==
    /\ lifts[p].pc = "GetAlignment"
    /\ LET chain == lifts[p].chain[1]
       IN  \E ga \in GetAlignment(ChainByID, chain.ID, lifts[p].position - chain.RefStart) :
              lifts' = [lifts EXCEPT ![p] =
                 [@ EXCEPT !.pc = "done",
                           !.result = IF ga.err # "nil" THEN -1
                                      ELSE QueryPosition(chain, ga.alignment[1],
                                                         lifts[p].position),
                           !.err = IF ga.err # "nil"
                                   THEN "position not found in chromosome" ELSE "nil",
                           !.overlapped = @ \/ OtherInCall(p)]]
    /\ UNCHANGED <<pc, upcoming, nread, sawHeader, ChainsByChromosome, ChainByID,
                   currentChain, refOffset, queryOffset, blockLog, ret, lift,
                   headerLog, export, calls, skippedInChain, strayBad, fasta, sniff>>

NextLifts ==
    \/ \E p \in Callers : CallLift(p)
    \/ \E p \in Callers : LiftGetChain(p)
    \/ \E p \in Callers : LiftGetAlignment(p)

SpecLifts == InitLifts /\ [][NextLifts]_vars

\* C22: GetChain, GetAlignment and Lift leave ChainsByChromosome and ChainByID
\* with all their chains and blocks as they are, and a Lift call that runs
\* interleaved with another returns a result and an error that the same call
\* has when it runs alone.
ReadOnlyQueries ==
    /\ [][UNCHANGED <<ChainsByChromosome, ChainByID>>]_vars
    /\ [](\A p \in Callers :
            lifts[p].pc = "done" =>
                \E alone \in LiftOutcomes(ChainFileSource, lifts[p].chromosome,
                                          lifts[p].position) :
                    /\ lifts[p].result = alone.result
                    /\ lifts[p].err = alone.err)

\* Both callers have returned from calls that ran while the other was in its
\* call, with different coordinates.
ReadOnlyQueriesWitness ==
    /\ \A p \in Callers :
         /\ lifts[p].pc = "done"
         /\ lifts[p].overlapped
         /\ lifts[p].err = "nil"
    /\ lifts[1].result # lifts[2].result

----------------------------------------------------------------------------
(* The ChainFile and the store as sources of Lift *)

\* C23: Lift against the store that holds what StoreChainFile wrote from a
\* ChainFile has an outcome of Lift against that ChainFile for the same
\* chromosome and position: the same position returned and the same error.
BackendEquivalence ==
    (lift # << >> /\ lift[1].source = "store") =>
        \E inMemory \in LiftOutcomes(ChainFileSource, lift[1].chromosome, lift[1].position) :
            /\ inMemory.result = lift[1].result
            /\ inMemory.err = lift[1].err

----------------------------------------------------------------------------
(* The header line chain 1000 1 + 0 100 1 + 0 100 5 *)

\* Read is about to read the line chain 1000 1 + 0 100 1 + 0 100 5 as the
\* first line of its input.
ScenarioHeaderUpcoming == pc = "scan" /\ nread = 0 /\ upcoming = HeaderScenario

\* C24 as stated: Read takes the line chain 1000 1 + 0 100 1 + 0 100 5 as the
\* header of a chain and goes on to the block lines, so that it can succeed
\* and Lift can be asked about the positions 120 and 95.
ScenarioHeaderAccepted ==
    [][ScenarioHeaderUpcoming => (pc' = "scan" /\ currentChain' # << >>)]_vars

\* C24: the line chain 1000 1 + 0 100 1 + 0 100 5 has 11 fields, and Read
\* returns nil and the error invalid chain line for it: no index comes of the
\* scenario, and there is no Lift of 120 or of 95 on it.
ScenarioHeaderRejected ==
    [][ScenarioHeaderUpcoming =>
          /\ pc' = "returned"
          /\ ret' = [cf |-> "nil", err |-> "invalid chain line", line |-> HeaderScenario]
          /\ currentChain' = << >>
          /\ ChainsByChromosome' = EmptyMap
          /\ ChainByID' = EmptyMap]_vars

\* Read has returned the error for the line of the scenario as its first line.
ScenarioHeaderRejectedWitness ==
    /\ pc = "returned"
    /\ nread = 1
    /\ ret.err = "invalid chain line"
    /\ ret.line = HeaderScenario
    /\ Len(Fields(ret.line)) = 11

----------------------------------------------------------------------------
(* The choice among several chains and blocks *)

\* The chains of the tree of the chromosome that the query for the position
\* of the last Lift yields, in the order of the tree.
LiftQueryResult ==
    ChainTreeQuery(ChainsByChromosome[lift[1].chromosome], lift[1].position)

\* C26: GetChain returns the first chain that the query of the tree yields
\* and GetAlignment the first block that the query of the chain's tree yields,
\* whatever the scores of the chains are.
FirstMatchTieBreak ==
    (LiftOnChainFile /\ lift[1].getChain.err = "nil") =>
        /\ LiftChain = TypesChain(LiftQueryResult[1])
        /\ lift[1].getAlignment[1].err = "nil" =>
             LiftAlignment \in
                {[RefOffset |-> a.RefOffset, QueryOffset |-> a.QueryOffset, Size |-> a.Size]
                 : a \in AlignmentTreeQueryFirst(ChainByID[LiftChain.ID].Alignments,
                                                 lift[1].position - LiftChain.RefStart)}

\* Two chains contain the position, GetChain returned the first, and the
\* other has the higher score; two blocks of the chain contain the offset
\* and GetAlignment returned the one that starts first.
FirstMatchTieBreakWitness ==
    /\ LiftOnChainFile
    /\ lift[1].getChain.err = "nil"
    /\ Len(LiftQueryResult) = 2
    /\ LiftQueryResult[2].Score > LiftChain.Score
    /\ lift[1].getAlignment[1].err = "nil"
    /\ \E a \in ChainByID[LiftChain.ID].Alignments :
         /\ a.RefOffset > LiftAlignment.RefOffset
         /\ Overlaps(AlignmentLow(a), AlignmentHigh(a),
                     lift[1].position - LiftChain.RefStart,
                     lift[1].position - LiftChain.RefStart)

----------------------------------------------------------------------------
(* Lines before the first header *)

\* Read is about to read a line that is not blank, not a comment and not a
\* header, and has read no header yet.
StrayLineUpcoming ==
    /\ LineUpcoming
    /\ ~sawHeader
    /\ ~IsSkipped(TrimSpace(upcoming))
    /\ ~IsHeader(TrimSpace(upcoming))

\* C28: a line that is not blank, not a comment and not a header and comes
\* before the first header is passed over by Read, with 1 or 3 fields or any
\* other number: Read goes on, and no block, no chain and no error comes of it.
StrayLinesDropped ==
    [][StrayLineUpcoming =>
          /\ pc' = "scan"
          /\ nread' = nread + 1
          /\ UNCHANGED <<ret, sawHeader, currentChain, refOffset, queryOffset,
                         blockLog, ChainsByChromosome, ChainByID, headerLog>>]_vars

\* Read has returned an index with a chain for an input that had a line with
\* neither 1 nor 3 fields before its first header.
StrayLinesDroppedWitness ==
    /\ strayBad
    /\ ReadSucceeded
    /\ DOMAIN ChainByID # {}

----------------------------------------------------------------------------
(* Query strands other than + *)

\* Read is about to read a header line with all its 13 fields whose query
\* strand is not +.
OtherStrandHeaderUpcoming ==
    /\ LineUpcoming
    /\ ~IsSkipped(TrimSpace(upcoming))
    /\ IsHeader(TrimSpace(upcoming))
    /\ Len(Fields(TrimSpace(upcoming))) >= 13
    /\ Fields(TrimSpace(upcoming))[10] # W_plus

\* C29: Read takes the query strand of a header as it is written, whatever
\* the token, and goes on; and for a chain whose QueryStrand is anything but +
\* (-, a token such as ?, the empty string) Lift returns
\* QueryEnd - (RefStart + RefOffset) and no error.
StrandFallback ==
    /\ [][OtherStrandHeaderUpcoming =>
             /\ pc' = "scan"
             /\ ret' = ret
             /\ currentChain' # << >>
             /\ currentChain'[1].QueryStrand = Fields(TrimSpace(upcoming))[10]]_vars
    /\ []((LiftGotBoth /\ LiftChain.QueryStrand # W_plus) =>
            /\ lift[1].err = "nil"
            /\ lift[1].result =
                 LiftChain.QueryEnd - (LiftChain.RefStart + LiftAlignment.RefOffset))

\* Lift on the ChainFile got a chain that Read built with the query strand ?
\* and returned what the minus-strand formula gives, which is not what the
\* plus-strand formula gives for the position.
StrandFallbackWitness ==
    /\ LiftOnChainFile
    /\ LiftGotBoth
    /\ LiftChain.QueryStrand = W_odd
    /\ lift[1].err = "nil"
    /\ lift[1].result = LiftChain.QueryEnd - (LiftChain.RefStart + LiftAlignment.RefOffset)
    /\ lift[1].result # LiftChain.QueryStart + LiftAlignment.QueryOffset
                          + (lift[1].position
                               - (LiftChain.RefStart + LiftAlignment.RefOffset))

----------------------------------------------------------------------------
(* fasta.Write and fasta.Read.  A file is the sequence of its characters.  A
   list of sequences is written and the file is read back, with no filter or
   with FilterByIndex.  A writer or reader that fails ends the call with the
   error. *)

\* The most sequences in a list.
MaxSeqs == 3

\* The number of values Write puts on a line.
LineWidth == 80

Repeat(c, n) == [i \in 1..n |-> c]

\* The sequences lists are made of: descriptions empty and not, values empty,
\* in lower case, of one full line, and of one more than a full line.
FastaDescriptions == {<< >>, <<"d">>, <<"e">>}
FastaValues == {<< >>, <<"a">>, Repeat("C", LineWidth), Repeat("G", LineWidth + 1)}
FastaSequences ==
    {[Description |-> d, Values |-> v] : d \in FastaDescriptions, v \in FastaValues}
FastaLists == UNION {[1..n -> FastaSequences] : n \in 0..MaxSeqs}

\* The values of a sequence as Write puts them out: a new line after every
\* LineWidth values that are not the last.
RECURSIVE WriteValues(_)
WriteValues(values) ==
    IF Len(values) <= LineWidth THEN values
    ELSE SubSeq(values, 1, LineWidth) \o <<"\n">>
           \o WriteValues(SubSeq(values, LineWidth + 1, Len(values)))

\* What Write puts out for the sequences.
RECURSIVE Write(_)
Write(sequences) ==
    IF sequences = << >> THEN << >>
    ELSE <<">">> \o Head(sequences).Description \o <<"\n">>
           \o WriteValues(Head(sequences).Values) \o <<"\n">>
           \o Write(Tail(sequences))

\* The lines ReadLine yields for the file, one after the other: what stands
\* between the new lines, and what follows the last when it is not empty.
ReadLines(file) ==
    LET newlines == {i \in 1..Len(file) : file[i] = "\n"}
        n == Cardinality(newlines)
        at(k) == IF k = 0 THEN 0
                 ELSE CHOOSE i \in newlines : Cardinality({j \in newlines : j <= i}) = k
        rest == SubSeq(file, at(n) + 1, Len(file))
    IN  [k \in 1..n |-> SubSeq(file, at(k - 1) + 1, at(k) - 1)]
          \o (IF rest = << >> THEN << >> ELSE <<rest>>)

\* FilterByIndex(i) as a value.
FilterByIndex(i) == [kind |-> "FilterByIndex", i |-> i]

\* filter(&s)
FilterMatches(filter, s) == s.index = filter.i

\* The sequences after Read has completed the sequence s: appended when there
\* is no filter or a filter matches.
Accept(sequences, s, filters) ==
    IF Len(filters) > 0
    THEN IF \E k \in 1..Len(filters) : FilterMatches(filters[k], s)
         THEN Append(sequences, s)
         ELSE sequences
    ELSE Append(sequences, s)

\* The loop of Read over the lines, and what follows it: the sequences
\* returned, from the sequences so far, the description and the values of the
\* sequence being read.
RECURSIVE ReadLoop(_, _, _, _, _)
ReadLoop(lines, sequences, description, values, filters) ==
    IF lines = << >>
    THEN IF Len(values) > 0
         THEN Accept(sequences, [Description |-> description, Values |-> values,
                                 index |-> Len(sequences)], filters)
         ELSE sequences
    ELSE LET line == Head(lines) IN
         IF Len(line) = 0
         THEN ReadLoop(Tail(lines), sequences, description, values, filters)
         ELSE IF line[1] = ">"
         THEN ReadLoop(Tail(lines),
                       IF Len(description) > 0
                       THEN Accept(sequences,
                                   [Description |-> description, Values |-> values,
                                    index |-> Len(sequences)], filters)
                       ELSE sequences,
                       Tail(line), << >>, filters)
         ELSE ReadLoop(Tail(lines), sequences, description,
                       values \o ToUpper(line), filters)

\* fasta.Read(r, filters...) on a reader that does not fail.
FastaRead(file, filters) == ReadLoop(ReadLines(file), << >>, << >>, << >>, filters)

\* A list of sequences is given; nothing is written yet.
InitFasta ==
    /\ pc = "fasta"
    /\ upcoming = EOF
    /\ nread = 0
    /\ sawHeader = FALSE
    /\ ChainsByChromosome = EmptyMap
    /\ ChainByID = EmptyMap
    /\ currentChain = << >>
    /\ refOffset = 0
    /\ queryOffset = 0
    /\ blockLog = << >>
    /\ ret = NotReturned
    /\ lift = << >>
    /\ headerLog = {}
    /\ export = ExportIdle
    /\ calls = << >>
    /\ skippedInChain = FALSE
    /\ strayBad = FALSE
    /\ lifts = << >>
    /\ \E sequences \in FastaLists :
         fasta = [pc |-> "given", sequences |-> sequences, file |-> << >>,
                  filters |-> << >>, out |-> << >>, err |-> "none"]
    /\ sniff = << >>

\* Write is called with the list: the file is written, or the writer fails.
CallWrite ==
    /\ pc = "fasta"
    /\ fasta.pc = "given"
    /\ \E ok \in BOOLEAN :
         fasta' = IF ok
                  THEN [fasta EXCEPT !.pc = "written", !.file = Write(fasta.sequences)]
                  ELSE [fasta EXCEPT !.pc = "failed",
                                     !.err = "failed to write fasta file"]
    /\ UNCHANGED <<pc, upcoming, nread, sawHeader, ChainsByChromosome, ChainByID,
                   currentChain, refOffset, queryOffset, blockLog, ret, lift,
                   headerLog, export, calls, skippedInChain, strayBad, lifts, sniff>>

\* Read is called on the file, with no filter or with FilterByIndex(i): it
\* returns the sequences, or the reader fails.
CallRead ==
    /\ pc = "fasta"
    /\ fasta.pc = "written"
    /\ \E ok \in BOOLEAN,
          filters \in {<< >>} \cup {<<FilterByIndex(i)>> : i \in 0..(MaxSeqs - 1)} :
         fasta' = IF ok
                  THEN [fasta EXCEPT !.pc = "read", !.filters = filters, !.err = "nil",
                                     !.out = FastaRead(fasta.file, filters)]
                  ELSE [fasta EXCEPT !.pc = "failed", !.filters = filters,
                                     !.err = "failed to read fasta file"]
    /\ UNCHANGED <<pc, upcoming, nread, sawHeader, ChainsByChromosome, ChainByID,
                   currentChain, refOffset, queryOffset, blockLog, ret, lift,
                   headerLog, export, calls, skippedInChain, strayBad, lifts, sniff>>

NextFasta ==
    \/ CallWrite
    \/ CallRead

SpecFasta == InitFasta /\ [][NextFasta]_vars

\* C25: Read of what Write put out for a list of sequences returns as many
\* sequences as the list has, in its order, each with the Description and the
\* Values of the sequence at its place.
FastaRoundTrip ==
    (fasta # << >> /\ fasta.pc = "read" /\ fasta.filters = << >>) =>
        /\ Len(fasta.out) = Len(fasta.sequences)
        /\ \A k \in 1..Len(fasta.out) :
             /\ fasta.out[k].Description = fasta.sequences[k].Description
             /\ fasta.out[k].Values = fasta.sequences[k].Values

\* C27: Read with the one filter FilterByIndex(i), i less than the number of
\* sequences in the file, returns one sequence: the one Read without a filter
\* returns at place i, counted from 0.
FilterByIndexSelectsPosition ==
    (/\ fasta # << >>
     /\ fasta.pc = "read"
     /\ fasta.filters # << >>
     /\ fasta.filters[1].i < Len(FastaRead(fasta.file, << >>))) =>
        /\ Len(fasta.out) = 1
        /\ fasta.out[1].Description =
             FastaRead(fasta.file, << >>)[fasta.filters[1].i + 1].Description
        /\ fasta.out[1].Values =
             FastaRead(fasta.file, << >>)[fasta.filters[1].i + 1].Values

----------------------------------------------------------------------------
(* compress.Decompress: the sniffing of the format.  Bytes are the numbers
   0..255.  The readers of the formats are outside the repository: one that
   can fail at its construction either fails or is returned. *)

\* The size of the buffer the head of the stream is read into.
SniffSize == 512

\* buf[lo:hi] with lo and hi counted as Go counts them, from 0.
Slice(buf, lo, hi) == SubSeq(buf, lo + 1, hi)

\* The heads of the input streams: a magic number, the gzip flags at [3], the
\* extra length at [10] and [11], the extra field from [12].
Magics ==
    {<<31, 139, 8>>,                   \* 1F 8B 08: gzip, deflate
     <<66, 90, 104>>,                  \* 42 5A 68: bzip2
     <<4, 34, 77, 24>>,                \* lz4
     <<253, 55, 122, 88, 90, 0>>,      \* xz
     <<120, 156>>,                     \* 78 9C: zlib
     <<40, 181, 47, 253>>,             \* zstd
     <<62, 100, 10>>}                  \* >d\n: none of them
Flags == {0, 4, 8, 12}
ExtraLengthLow == {0, 4, 6, 244, 245, 255}
ExtraLengthHigh == {0, 1, 255}
BgzfExtra == <<66, 67, 2, 0>>
Extras == {BgzfExtra, <<66, 67, 2, 0, 255, 255>>, <<0, 0, 0, 0>>}

\* The number of bytes the first Read of the stream yields.
SniffReads == {1, 2, 12, 16, SniffSize}

\* A stream of SniffSize bytes or more with this head.
StreamHead(magic, flg, low, high, extra) ==
    [i \in 1..SniffSize |->
        IF i <= Len(magic) THEN magic[i]
        ELSE IF i = 4 THEN flg
        ELSE IF i = 11 THEN low
        ELSE IF i = 12 THEN high
        ELSE IF i >= 13 /\ i < 13 + Len(extra) THEN extra[i - 12]
        ELSE 0]

\* make([]byte, 512) after r.Read has put the first n bytes of the stream
\* into it.
SniffBuffer(stream, n) == [i \in 1..SniffSize |-> IF i <= n THEN stream[i] ELSE 0]

\* int(buf[10]) | int(buf[11])<<8
ExtraLength(buf) == buf[11] + buf[12] * 256

\* buf[3]&0x04 != 0
ExtraFlagSet(buf) == (buf[4] \div 4) % 2 = 1

\* What the switch of Decompress comes to for the buffer: the reader it
\* constructs, or the panic of a slice that reaches beyond the buffer.
Detect(buf) ==
    IF HasPrefix(buf, <<66, 90, 104>>) THEN "bzip2"
    ELSE IF Slice(buf, 0, 2) = <<31, 139>>
    THEN IF ExtraFlagSet(buf)
         THEN IF 12 + ExtraLength(buf) > SniffSize
              THEN "panic: slice bounds out of range"
              ELSE IF Slice(buf, 12, 12 + ExtraLength(buf)) = BgzfExtra
              THEN "bgzf"
              ELSE "gzip"
         ELSE "gzip"
    ELSE IF HasPrefix(buf, <<4, 34, 77, 24>>) THEN "lz4"
    ELSE IF HasPrefix(buf, <<253, 55, 122, 88, 90, 0>>) THEN "xz"
    ELSE IF \/ HasPrefix(buf, <<120, 1>>)
            \/ HasPrefix(buf, <<120, 156>>)
            \/ HasPrefix(buf, <<120, 218>>) THEN "zlib"
    ELSE IF HasPrefix(buf, <<40, 181, 47, 253>>) THEN "zstd"
    ELSE "plain"

\* The readers whose construction can fail.
CanFail == {"bgzf", "gzip", "xz", "zlib", "zstd"}

\* Decompress is called on a stream that is not empty.
InitSniff ==
    /\ pc = "sniff"
    /\ upcoming = EOF
    /\ nread = 0
    /\ sawHeader = FALSE
    /\ ChainsByChromosome = EmptyMap
    /\ ChainByID = EmptyMap
    /\ currentChain = << >>
    /\ refOffset = 0
    /\ queryOffset = 0
    /\ blockLog = << >>
    /\ ret = NotReturned
    /\ lift = << >>
    /\ headerLog = {}
    /\ export = ExportIdle
    /\ calls = << >>
    /\ skippedInChain = FALSE
    /\ strayBad = FALSE
    /\ lifts = << >>
    /\ fasta = << >>
    /\ \E magic \in Magics, flg \in Flags, low \in ExtraLengthLow,
          high \in ExtraLengthHigh, extra \in Extras :
         sniff = [pc |-> "called", stream |-> StreamHead(magic, flg, low, high, extra),
                  n |-> 0, buf |-> << >>, reader |-> "none", err |-> "none"]

\* n, err := r.Read(buf): the first n bytes of the stream are in buf, or the
\* reader fails and Decompress returns the error.
SniffRead ==
    /\ pc = "sniff"
    /\ sniff.pc = "called"
    /\ \/ \E n \in SniffReads :
            sniff' = [sniff EXCEPT !.pc = "sniffed", !.n = n,
                                   !.buf = SniffBuffer(sniff.stream, n)]
       \/ sniff' = [sniff EXCEPT !.pc = "returned", !.err = "read"]
    /\ UNCHANGED <<pc, upcoming, nread, sawHeader, ChainsByChromosome, ChainByID,
                   currentChain, refOffset, queryOffset, blockLog, ret, lift,
                   headerLog, export, calls, skippedInChain, strayBad, lifts, fasta>>

\* The switch: Decompress returns the reader of the format found or the error
\* of its construction, or panics.
SniffDetect ==
    /\ pc = "sniff"
    /\ sniff.pc = "sniffed"
    /\ LET found == Detect(sniff.buf) IN
       IF found = "panic: slice bounds out of range"
       THEN sniff' = [sniff EXCEPT !.pc = "panicked", !.err = found]
       ELSE \E ok \in (IF found \in CanFail THEN BOOLEAN ELSE {TRUE}) :
              sniff' = IF ok
                       THEN [sniff EXCEPT !.pc = "returned", !.reader = found,
                                          !.err = "nil"]
                       ELSE [sniff EXCEPT !.pc = "returned", !.err = found]
    /\ UNCHANGED <<pc, upcoming, nread, sawHeader, ChainsByChromosome, ChainByID,
                   currentChain, refOffset, queryOffset, blockLog, ret, lift,
                   headerLog, export, calls, skippedInChain, strayBad, lifts, fasta>>

NextSniff ==
    \/ SniffRead
    \/ SniffDetect

SpecSniff == InitSniff /\ [][NextSniff]_vars

\* C30: for a stream that is not empty, short or long, and for a gzip head
\* with the extra flag set and any extra length, Decompress takes no slice
\* that reaches beyond the 512 bytes of its buffer: it returns a reader or an
\* error and does not panic.
SniffStaysInBuffer ==
    sniff # << >> =>
        /\ sniff.pc # "panicked"
        /\ (/\ sniff.pc \in {"sniffed", "returned"}
            /\ sniff.buf # << >>
            /\ Slice(sniff.buf, 0, 2) = <<31, 139>>
            /\ ExtraFlagSet(sniff.buf)) => 12 + ExtraLength(sniff.buf) <= SniffSize

====
